---------------------------- MODULE Spec2Model ----------------------------
(***************************************************************************)
(* A model of the Boost proof-of-work library (boostpow-js): the Job       *)
(* locking-script codec, the work puzzle / PoW string, and the Puzzle      *)
(* facade.  Buffers are sequences of bytes (0..255); a Script is a         *)
(* sequence of chunks {opcodenum, buf?, len?}.                             *)
(***************************************************************************)
EXTENDS Integers, Sequences, FiniteSets, TLC

VARIABLES job, script, parsed, address, solution, redeemHash, wpuzzle, wproof, powstr, key, facade

\* a transaction, its serialization and its estimated size
VARIABLES tx, written, estimate

\* the output a facade Puzzle spends, the fee rate, the redeeming transaction
VARIABLES output, rate, spend

\* a facade Output, a facade Input, and the facade Proof made of them
VARIABLES outObj, inObj, fproof

\* the JSON form of a Solution and the Solution read from it
VARIABLES sjson, sback

\* the object given to Job.fromObject and what fromObject made of it
VARIABLES params, made

\* a header hash and compact target, and the outcome of the proof-of-work check
VARIABLES check

txVars == <<tx, written, estimate>>

redeemVars == <<output, rate, spend>>

attachVars == <<outObj, inObj, fproof>>

jsonVars == <<sjson, sback, params, made>>

powVars == <<check>>

vars == <<job, script, parsed, address, solution, redeemHash, wpuzzle, wproof, powstr, key, facade,
          txVars, redeemVars, attachVars, jsonVars, powVars>>

(***************************************************************************)
(* Bounds of the model.                                                    *)
(***************************************************************************)
\* number of distinct (content, difficulty, category, userNonce) seeds
NumSeeds == 3
\* longest additionalData drawn byte by byte
MaxDataLen == 1
\* number of distinct solutions per general-purpose-bits choice
NumSolutions == 2
\* number of private keys
NumKeys == 2

(***************************************************************************)
(* Bytes and buffers.                                                      *)
(***************************************************************************)
Ramp(n, s) == [i \in 1..n |-> (s * 37 + i * 11) % 256]

Fill(n, b) == [i \in 1..n |-> b]

RECURSIVE Concat(_)
Concat(bufs) == IF bufs = <<>> THEN <<>> ELSE Head(bufs) \o Concat(Tail(bufs))

Slice(b, from, to) == [i \in 1..(to - from + 1) |-> b[from + i - 1]]

\* 'boostpow' in utf8
BoostPowFlag == <<98, 111, 111, 115, 116, 112, 111, 119>>

\* an optional buffer: `undefined` or a Buffer
None == [has |-> FALSE, buf |-> <<>>]

Some(b) == [has |-> TRUE, buf |-> b]

\* an optional number
NoNumber == [has |-> FALSE, n |-> 0]

Number(n) == [has |-> TRUE, n |-> n]

(***************************************************************************)
(* bsv.Opcode: the opcode numbers the library uses.                        *)
(***************************************************************************)
Opcode ==
  [ OP_0 |-> 0, OP_PUSHDATA1 |-> 76, OP_PUSHDATA2 |-> 77, OP_PUSHDATA4 |-> 78,
    OP_1NEGATE |-> 79, OP_1 |-> 81, OP_2 |-> 82, OP_3 |-> 83, OP_4 |-> 84,
    OP_5 |-> 85, OP_6 |-> 86, OP_8 |-> 88, OP_16 |-> 96, OP_NOP |-> 97,
    OP_VERIFY |-> 105, OP_TOALTSTACK |-> 107, OP_FROMALTSTACK |-> 108,
    OP_DROP |-> 117, OP_DUP |-> 118, OP_PICK |-> 121, OP_ROLL |-> 122,
    OP_SWAP |-> 124, OP_CAT |-> 126, OP_SPLIT |-> 127, OP_BIN2NUM |-> 129,
    OP_SIZE |-> 130, OP_INVERT |-> 131, OP_AND |-> 132, OP_OR |-> 133,
    OP_EQUALVERIFY |-> 136, OP_SUB |-> 148, OP_MUL |-> 149, OP_RSHIFT |-> 153,
    OP_LESSTHAN |-> 159, OP_GREATERTHAN |-> 160, OP_LESSTHANOREQUAL |-> 161,
    OP_WITHIN |-> 165, OP_HASH160 |-> 169, OP_HASH256 |-> 170,
    OP_CHECKSIG |-> 172 ]

(***************************************************************************)
(* Script chunks.  What Script.add is given is either a number (an opcode) *)
(* or a Buffer; a chunk either has a buf (and len) or has none.            *)
(***************************************************************************)
OpElem(n) == [isBuf |-> FALSE, n |-> n, buf |-> <<>>]

BufElem(b) == [isBuf |-> TRUE, n |-> 0, buf |-> b]

OpChunk(n) == [opcodenum |-> n, hasBuf |-> FALSE, buf |-> <<>>, len |-> 0]

\* Script._addBuffer: the push opcode is chosen from the length alone
_addBuffer(buf) ==
  LET len == Len(buf)
      opcodenum == IF len >= 0 /\ len < Opcode.OP_PUSHDATA1 THEN len
                   ELSE IF len < 256 THEN Opcode.OP_PUSHDATA1
                   ELSE IF len < 65536 THEN Opcode.OP_PUSHDATA2
                   ELSE Opcode.OP_PUSHDATA4
  IN [opcodenum |-> opcodenum, hasBuf |-> TRUE, buf |-> buf, len |-> len]

\* Script.add / _addByType for the two kinds of argument the Job codec passes
ScriptAdd(chunks, elem) ==
  IF elem.isBuf THEN Append(chunks, _addBuffer(elem.buf))
  ELSE Append(chunks, OpChunk(elem.n))

\* Script.add called on each element in turn
ScriptAddAll(chunks, elems) ==
  chunks \o [i \in 1..Len(elems) |-> ScriptAdd(<<>>, elems[i])[1]]

(***************************************************************************)
(* The body of the locking script (Job.scriptOperations...).               *)
(***************************************************************************)
O == Opcode

ensure_positive == << BufElem(<<0>>), OpElem(O.OP_CAT), OpElem(O.OP_BIN2NUM) >>

expand_target ==
  << OpElem(O.OP_SIZE), OpElem(O.OP_4), OpElem(O.OP_EQUALVERIFY),
     OpElem(O.OP_3), OpElem(O.OP_SPLIT), OpElem(O.OP_DUP), OpElem(O.OP_BIN2NUM),
     OpElem(O.OP_3), BufElem(<<33>>), OpElem(O.OP_WITHIN), OpElem(O.OP_VERIFY),
     OpElem(O.OP_TOALTSTACK), OpElem(O.OP_DUP), OpElem(O.OP_BIN2NUM),
     OpElem(O.OP_0), OpElem(O.OP_GREATERTHAN), OpElem(O.OP_VERIFY),
     BufElem(Fill(29, 0)), OpElem(O.OP_CAT), OpElem(O.OP_FROMALTSTACK),
     OpElem(O.OP_3), OpElem(O.OP_SUB), OpElem(O.OP_8), OpElem(O.OP_MUL),
     OpElem(O.OP_RSHIFT) >>

\* the tail shared by both bodies: timestamp, target, nonce, hash, compare, checksig
BodyTail ==
  << OpElem(O.OP_SWAP), OpElem(O.OP_SIZE), OpElem(O.OP_4),
     OpElem(O.OP_EQUALVERIFY), OpElem(O.OP_CAT),
     OpElem(O.OP_FROMALTSTACK), OpElem(O.OP_CAT),
     OpElem(O.OP_SWAP), OpElem(O.OP_SIZE), OpElem(O.OP_4),
     OpElem(O.OP_EQUALVERIFY), OpElem(O.OP_CAT),
     OpElem(O.OP_HASH256) >>
  \o ensure_positive
  \o << OpElem(O.OP_FROMALTSTACK) >> \o expand_target \o ensure_positive
  \o << OpElem(O.OP_LESSTHAN), OpElem(O.OP_VERIFY),
        OpElem(O.OP_DUP), OpElem(O.OP_HASH160), OpElem(O.OP_FROMALTSTACK),
        OpElem(O.OP_EQUALVERIFY), OpElem(O.OP_CHECKSIG) >>

scriptOperationsV1NoASICBoost ==
  << OpElem(O.OP_CAT), OpElem(O.OP_SWAP),
     OpElem(O.OP_5), OpElem(O.OP_ROLL), OpElem(O.OP_DUP),
     OpElem(O.OP_TOALTSTACK), OpElem(O.OP_CAT),
     OpElem(O.OP_2), OpElem(O.OP_PICK), OpElem(O.OP_TOALTSTACK),
     OpElem(O.OP_5), OpElem(O.OP_ROLL), OpElem(O.OP_SIZE), OpElem(O.OP_4),
     OpElem(O.OP_EQUALVERIFY), OpElem(O.OP_CAT),
     OpElem(O.OP_5), OpElem(O.OP_ROLL), OpElem(O.OP_SIZE), OpElem(O.OP_8),
     OpElem(O.OP_EQUALVERIFY), OpElem(O.OP_CAT),
     OpElem(O.OP_SWAP), OpElem(O.OP_CAT), OpElem(O.OP_HASH256),
     OpElem(O.OP_SWAP), OpElem(O.OP_TOALTSTACK), OpElem(O.OP_CAT),
     OpElem(O.OP_CAT) >>
  \o BodyTail

\* little-endian bytes of the general purpose bits mask pushed by the v2 body
MaskPush == <<255, 31, 0, 224>>

scriptOperationsV2ASICBoost ==
  << OpElem(O.OP_CAT), OpElem(O.OP_SWAP),
     OpElem(O.OP_5), OpElem(O.OP_ROLL), OpElem(O.OP_DUP),
     OpElem(O.OP_TOALTSTACK), OpElem(O.OP_CAT),
     OpElem(O.OP_2), OpElem(O.OP_PICK), OpElem(O.OP_TOALTSTACK),
     OpElem(O.OP_6), OpElem(O.OP_ROLL), OpElem(O.OP_SIZE), OpElem(O.OP_4),
     OpElem(O.OP_EQUALVERIFY), OpElem(O.OP_CAT),
     OpElem(O.OP_6), OpElem(O.OP_ROLL), OpElem(O.OP_SIZE), BufElem(<<32>>),
     OpElem(O.OP_LESSTHANOREQUAL), OpElem(O.OP_VERIFY), OpElem(O.OP_CAT),
     OpElem(O.OP_SWAP), OpElem(O.OP_CAT), OpElem(O.OP_HASH256),
     OpElem(O.OP_SWAP), OpElem(O.OP_TOALTSTACK), OpElem(O.OP_CAT),
     OpElem(O.OP_TOALTSTACK),
     BufElem(MaskPush), OpElem(O.OP_DUP), OpElem(O.OP_INVERT),
     OpElem(O.OP_TOALTSTACK), OpElem(O.OP_AND),
     OpElem(O.OP_SWAP), OpElem(O.OP_FROMALTSTACK), OpElem(O.OP_AND),
     OpElem(O.OP_OR),
     OpElem(O.OP_FROMALTSTACK), OpElem(O.OP_CAT) >>
  \o BodyTail

scriptOperations(useGeneralPurposeBits) ==
  IF useGeneralPurposeBits THEN scriptOperationsV2ASICBoost
  ELSE scriptOperationsV1NoASICBoost

(***************************************************************************)
(* Difficulty and compact bits (Utils.difficulty, Utils.difficulty2bits).  *)
(* A difficulty is kept as the exact target it stands for, mant * 256^exp  *)
(* with mant not a multiple of 256; bits are the 4 little-endian bytes     *)
(* mantissa(3) exponent(1).                                                *)
(***************************************************************************)
RECURSIVE NormTarget(_, _)
NormTarget(mant, exp) ==
  IF mant > 0 /\ mant % 256 = 0 THEN NormTarget(mant \div 256, exp + 1)
  ELSE [mant |-> mant, exp |-> exp]

RECURSIVE ByteLength(_)
ByteLength(n) == IF n < 256 THEN 1 ELSE 1 + ByteLength(n \div 256)

RECURSIVE Pow256(_)
Pow256(k) == IF k = 0 THEN 1 ELSE 256 * Pow256(k - 1)

\* Utils.difficulty: the difficulty a compact target stands for
difficulty(bits) ==
  NormTarget(bits[1] + 256 * bits[2] + 65536 * bits[3], bits[4] - 3)

\* Utils.difficulty2bits followed by UInt32Little.fromNumber
difficulty2bits(d) ==
  LET n == ByteLength(d.mant)
      word == IF n <= 3 THEN d.mant * Pow256(3 - n) ELSE d.mant \div Pow256(n - 3)
      size == n + d.exp
      signed == word >= 8388608
      w == IF signed THEN word \div 256 ELSE word
      sz == IF signed THEN size + 1 ELSE size
  IN << w % 256, (w \div 256) % 256, w \div 65536, sz >>

(***************************************************************************)
(* Job: the locking-script-level job.                                      *)
(***************************************************************************)
MkJob(content, diff, category, tag, data, nonce, gpb, mpkh) ==
  [ Content |-> content, Difficulty |-> diff, Category |-> category,
    Tag |-> tag, AdditionalData |-> data, UserNonce |-> nonce,
    useGeneralPurposeBits |-> gpb, MinerPubKeyHash |-> mpkh ]

NoJob == MkJob(<<>>, [mant |-> 0, exp |-> 0], <<>>, <<>>, <<>>, <<>>, FALSE, None)

\* Job.bits
JobBits(j) == difficulty2bits(j.Difficulty)

\* Job.isContract: !!this.MinerPubKeyHash
isContract(j) == j.MinerPubKeyHash.has

\* Job.isBounty: !this.MinerPubKeyHash
isBounty(j) == ~ j.MinerPubKeyHash.has

\* Job.scriptVersion
scriptVersion(j) == IF j.useGeneralPurposeBits THEN 2 ELSE 1

\* a faulty toOpCode: the byte 0x81 is left as a payload
ToOpCodeNoNegate(num) ==
  IF Len(num) = 1 /\ num[1] >= 1 /\ num[1] <= 16 THEN OpElem(Opcode.OP_1 + (num[1] - 1))
  ELSE BufElem(num)

\* a faulty toOpCode: also turns the byte 0 into an opcode
ToOpCodeZeroToo(num) ==
  IF Len(num) = 1 /\ num[1] >= 0 /\ num[1] <= 16 THEN OpElem(Opcode.OP_1 + (num[1] - 1))
  ELSE IF Len(num) = 1 /\ num[1] = 129 THEN OpElem(Opcode.OP_1NEGATE)
  ELSE BufElem(num)

\* Job.toOpCode: a one-byte value 1..16 or 0x81 becomes a small-int opcode
toOpCode(num) ==
  IF Len(num) = 1 /\ num[1] >= 1 /\ num[1] <= 16 THEN OpElem(Opcode.OP_1 + (num[1] - 1))
  ELSE IF Len(num) = 1 /\ num[1] = 129 THEN OpElem(Opcode.OP_1NEGATE)
  ELSE BufElem(num)

\* Job.toScript
toScript(j) ==
  ScriptAddAll(<<>>,
       << toOpCode(BoostPowFlag), OpElem(Opcode.OP_DROP) >>
    \o (IF j.MinerPubKeyHash.has THEN << toOpCode(j.MinerPubKeyHash.buf) >> ELSE <<>>)
    \o << toOpCode(j.Category), toOpCode(j.Content), toOpCode(JobBits(j)),
          toOpCode(j.Tag), toOpCode(j.UserNonce), toOpCode(j.AdditionalData) >>
    \o scriptOperations(j.useGeneralPurposeBits))

\* Utils.fromOpCode: the payload a chunk pushes, small-int opcodes included
fromOpCode(chunk) ==
  IF chunk.opcodenum >= Opcode.OP_1 /\ chunk.opcodenum <= Opcode.OP_16
    THEN << chunk.opcodenum - Opcode.OP_1 + 1 >>
  ELSE IF chunk.opcodenum = Opcode.OP_0 THEN <<>>
  ELSE IF chunk.opcodenum = Opcode.OP_1NEGATE THEN <<129>>
  ELSE chunk.buf

\* one step of the comparison loop of remainingOperationsMatchExactly
OpMatches(chunk, expected) ==
  \/ chunk.hasBuf /\ expected.isBuf /\ chunk.len = Len(expected.buf)
  \/ ~ chunk.hasBuf /\ ~ expected.isBuf /\ expected.n = chunk.opcodenum

\* Job.remainingOperationsMatchExactly (chunks are indexed from 0 in the code)
remainingOperationsMatchExactly(remainingChunks, start, expectedOps) ==
  /\ (Len(remainingChunks) - start) = Len(expectedOps)
  /\ \A i \in 0..(Len(remainingChunks) - start - 1) :
        OpMatches(remainingChunks[start + i + 1], expectedOps[i + 1])

(***************************************************************************)
(* Job.readScript.  The result records whether a Job was returned or an    *)
(* exception thrown, and which of the two branches (is_bounty) was taken.  *)
(***************************************************************************)
Throw(msg, branch) == [ok |-> FALSE, err |-> msg, branch |-> branch, job |-> NoJob]

Return(j, branch) == [ok |-> TRUE, err |-> "", branch |-> branch, job |-> j]

NotRun == [ok |-> FALSE, err |-> "not run", branch |-> "none", job |-> NoJob]

IsSmallIntOpcode(chunk) ==
  \/ chunk.opcodenum = Opcode.OP_0
  \/ chunk.opcodenum = Opcode.OP_1NEGATE
  \/ (chunk.opcodenum >= Opcode.OP_1 /\ chunk.opcodenum <= Opcode.OP_16)

\* the conjuncts of the field check that read chunk k (0-based), bounty layout
BountyFieldOk(chunks, k) ==
  LET c == chunks[k + 1] IN
  CASE k = 3 -> c.hasBuf /\ c.len = 32
    [] k = 4 -> c.hasBuf /\ c.len = 4
    [] k = 5 -> (c.hasBuf /\ c.len <= 20) \/ IsSmallIntOpcode(c)
    [] k = 6 -> c.hasBuf /\ c.len = 4
    [] k = 7 -> c.hasBuf \/ IsSmallIntOpcode(c)

\* the conjuncts of the field check that read chunk k (0-based), contract layout
ContractFieldOk(chunks, k) ==
  LET c == chunks[k + 1] IN
  CASE k = 3 -> c.hasBuf /\ c.opcodenum = 4
    [] k = 4 -> c.hasBuf /\ c.len = 32
    [] k = 5 -> c.hasBuf /\ c.len = 4
    [] k = 6 -> (c.hasBuf /\ c.len <= 20) \/ IsSmallIntOpcode(c)
    [] k = 7 -> c.hasBuf /\ c.len = 4
    [] k = 8 -> c.hasBuf \/ IsSmallIntOpcode(c)

\* the && chain is evaluated left to right: the first chunk that fails its
\* conjuncts ends it; reading a chunk the script does not have is a TypeError
FirstBad(chunks, from, to, contract) ==
  LET bad == {k \in from..to :
                \/ k + 1 > Len(chunks)
                \/ (contract /\ ~ ContractFieldOk(chunks, k))
                \/ (~ contract /\ ~ BountyFieldOk(chunks, k))}
  IN IF bad = {} THEN -1 ELSE CHOOSE k \in bad : \A m \in bad : k <= m

readBounty(chunks) ==
  LET bad == FirstBad(chunks, 3, 7, FALSE) IN
  IF bad # -1 THEN
    (IF bad + 1 > Len(chunks) THEN Throw("TypeError", "bounty")
     ELSE Throw("Not valid Boost Output", "bounty"))
  ELSE IF ~ remainingOperationsMatchExactly(chunks, 8, scriptOperationsV1NoASICBoost)
          /\ ~ remainingOperationsMatchExactly(chunks, 8, scriptOperationsV2ASICBoost)
    THEN Throw("Invalid script program", "bounty")
  ELSE Return(
    MkJob(fromOpCode(chunks[4]),
          difficulty(fromOpCode(chunks[5])),
          fromOpCode(chunks[3]),
          fromOpCode(chunks[6]),
          fromOpCode(chunks[8]),
          fromOpCode(chunks[7]),
          ~ remainingOperationsMatchExactly(chunks, 8, scriptOperationsV1NoASICBoost),
          None), "bounty")

readContract(chunks) ==
  LET bad == FirstBad(chunks, 3, 8, TRUE) IN
  IF bad # -1 THEN
    (IF bad + 1 > Len(chunks) THEN Throw("TypeError", "contract")
     ELSE Throw("Invalid boost format", "contract"))
  ELSE IF ~ remainingOperationsMatchExactly(chunks, 9, scriptOperationsV1NoASICBoost)
          /\ ~ remainingOperationsMatchExactly(chunks, 9, scriptOperationsV2ASICBoost)
    THEN Throw("Not valid Boost Output", "contract")
  ELSE Return(
    MkJob(fromOpCode(chunks[5]),
          difficulty(fromOpCode(chunks[6])),
          fromOpCode(chunks[4]),
          fromOpCode(chunks[7]),
          fromOpCode(chunks[9]),
          fromOpCode(chunks[8]),
          ~ remainingOperationsMatchExactly(chunks, 9, scriptOperationsV1NoASICBoost),
          Some(fromOpCode(chunks[3]))), "contract")

\* the detection of the bounty or contract pattern from chunk[2]
DetectPattern(chunk) ==
  IF chunk.hasBuf /\ chunk.opcodenum = 4 THEN "bounty"
  ELSE IF chunk.hasBuf /\ chunk.opcodenum = 20 THEN "contract"
  ELSE "none"

readScript(chunks) ==
  IF Len(chunks) < 1 \/ ~ chunks[1].hasBuf THEN Throw("TypeError", "none")
  ELSE IF chunks[1].buf # BoostPowFlag THEN Throw("Invalid: no boostpow flag", "none")
  ELSE IF Len(chunks) < 2 THEN Throw("TypeError", "none")
  ELSE IF chunks[2].opcodenum # Opcode.OP_DROP THEN Throw("Invalid: no boostpow flag", "none")
  ELSE IF Len(chunks) < 3 THEN Throw("TypeError", "none")
  ELSE CASE DetectPattern(chunks[3]) = "bounty" -> readBounty(chunks)
         [] DetectPattern(chunks[3]) = "contract" -> readContract(chunks)
         [] OTHER -> Throw("Invalid: could not detect bounty or contract pattern", "none")

(***************************************************************************)
(* Hashes.  SHA-256d and HASH160 are stood for by position-weighted        *)
(* checksums of the right width: deterministic, and sensitive to the order *)
(* and content of the bytes hashed.                                        *)
(***************************************************************************)
RECURSIVE RangeSum(_, _, _, _)
RangeSum(b, lo, hi, weighted) ==
  IF lo > hi THEN 0
  ELSE IF lo = hi THEN (b[lo] + 1) * (IF weighted THEN lo ELSE 1)
  ELSE RangeSum(b, lo, (lo + hi) \div 2, weighted)
       + RangeSum(b, (lo + hi) \div 2 + 1, hi, weighted)

WeightedSum(b, k, weighted) == RangeSum(b, k, Len(b), weighted)

Digest(b, width, salt) ==
  LET byPosition == WeightedSum(b, 1, TRUE) % 256
      plain == (WeightedSum(b, 1, FALSE) + salt) % 256
  IN [i \in 1..width |-> (byPosition + i * plain + Len(b)) % 256]

\* Bytes.hash256 (sha256d)
Hash256(b) == Digest(b, 32, 7)

\* ripemd160(sha256(.))
Hash160(b) == Digest(b, 20, 13)

(***************************************************************************)
(* 32-bit integer fields.  A signed 32-bit number is an integer in         *)
(* -2^31 .. 2^31-1; an unsigned one is kept as two 16-bit halves.          *)
(***************************************************************************)
\* Buffer.readInt32LE
readInt32LE(b) ==
  b[1] + 256 * b[2] + 65536 * b[3]
    + 16777216 * (IF b[4] >= 128 THEN b[4] - 256 ELSE b[4])

\* Buffer.writeInt32LE
writeInt32LE(n) ==
  LET r == IF n < 0 THEN n + 1073741824 + 1073741824 ELSE n
      top == (r \div 16777216) + (IF n < 0 THEN 128 ELSE 0)
  IN << r % 256, (r \div 256) % 256, (r \div 65536) % 256, top >>

\* Buffer.readUInt32LE
readUInt32LE(b) == [lo |-> b[1] + 256 * b[2], hi |-> b[3] + 256 * b[4]]

\* Buffer.writeUInt32LE
writeUInt32LE(n) == << n.lo % 256, n.lo \div 256, n.hi % 256, n.hi \div 256 >>

RECURSIVE And8(_, _)
And8(a, b) ==
  IF a = 0 \/ b = 0 THEN 0
  ELSE (a % 2) * (b % 2) + 2 * And8(a \div 2, b \div 2)

RECURSIVE Or8(_, _)
Or8(a, b) ==
  IF a = 0 THEN b ELSE IF b = 0 THEN a
  ELSE (IF a % 2 = 1 \/ b % 2 = 1 THEN 1 ELSE 0) + 2 * Or8(a \div 2, b \div 2)

\* the JavaScript operators &, | and ~ on 32-bit signed integers
BitAnd(x, y) ==
  readInt32LE([i \in 1..4 |-> And8(writeInt32LE(x)[i], writeInt32LE(y)[i])])

BitOr(x, y) ==
  readInt32LE([i \in 1..4 |-> Or8(writeInt32LE(x)[i], writeInt32LE(y)[i])])

BitNot(x) == -x - 1

\* Utils.generalPurposeBitsMask as an Int32Little: 0xe0001fff
generalPurposeBitsMask == MaskPush

(***************************************************************************)
(* work.Puzzle, work.Solution, meta, pow_string, work.Proof.               *)
(***************************************************************************)
WorkPuzzle(category, content, diff, metaBegin, metaEnd, mask) ==
  [ Category |-> category, Content |-> content, Difficulty |-> diff,
    MetaBegin |-> metaBegin, MetaEnd |-> metaEnd, Mask |-> mask ]

NoPuzzle == WorkPuzzle(<<>>, <<>>, [mant |-> 0, exp |-> 0], <<>>, <<>>, None)

MkSolution(time, en1, en2, nonce, gpb) ==
  [ Time |-> time, ExtraNonce1 |-> en1, ExtraNonce2 |-> en2, Nonce |-> nonce,
    GeneralPurposeBits |-> gpb ]

\* a faulty meta: the two extra nonces after the end of the metadata
MetaNoncesLast(p, x) ==
  Concat(<< p.MetaBegin, p.MetaEnd, x.ExtraNonce1, x.ExtraNonce2 >>)

\* meta(p, x)
meta(p, x) ==
  Concat(<< p.MetaBegin, x.ExtraNonce1, x.ExtraNonce2, p.MetaEnd >>)

\* BlockHeader._fromBufferReader
BlockHeaderFromBuffer(buf) ==
  [ version |-> readInt32LE(Slice(buf, 1, 4)),
    prevHash |-> Slice(buf, 5, 36),
    merkleRoot |-> Slice(buf, 37, 68),
    time |-> readUInt32LE(Slice(buf, 69, 72)),
    bits |-> readUInt32LE(Slice(buf, 73, 76)),
    nonce |-> readUInt32LE(Slice(buf, 77, 80)) ]

\* BlockHeader.toBufferWriter
BlockHeaderToBuffer(h) ==
  Concat(<< writeInt32LE(h.version), h.prevHash, h.merkleRoot,
            writeUInt32LE(h.time), writeUInt32LE(h.bits), writeUInt32LE(h.nonce) >>)

\* a faulty version word: the mask applied the wrong way round
MaskedCategorySwapped(p, x) ==
  writeInt32LE(
    BitOr(BitAnd(readInt32LE(p.Category), BitNot(readInt32LE(p.Mask.buf))),
          BitAnd(readInt32LE(x.GeneralPurposeBits.buf), readInt32LE(p.Mask.buf))))

\* the category of the header when the puzzle has a mask and the solution has bits
MaskedCategory(p, x) ==
  writeInt32LE(
    BitOr(BitAnd(readInt32LE(p.Category), readInt32LE(p.Mask.buf)),
          BitAnd(readInt32LE(x.GeneralPurposeBits.buf), BitNot(readInt32LE(p.Mask.buf)))))

\* a faulty layout: time and bits exchanged
PowBytesTimeAfterBits(category, p, x) ==
  Concat(<< category, p.Content, Hash256(meta(p, x)),
            difficulty2bits(p.Difficulty), x.Time, x.Nonce >>)

\* the 80 bytes handed to BlockHeader.fromBuffer
PowBytes(category, p, x) ==
  Concat(<< category, p.Content, Hash256(meta(p, x)), x.Time,
            difficulty2bits(p.Difficulty), x.Nonce >>)

\* a faulty pow_string: a solution without bits is accepted for a masked puzzle
PowStringIgnoresMissingBits(p, x) ==
  IF p.Mask.has /\ x.GeneralPurposeBits.has
    THEN Some(BlockHeaderToBuffer(BlockHeaderFromBuffer(PowBytes(MaskedCategory(p, x), p, x))))
  ELSE IF x.GeneralPurposeBits.has THEN None
  ELSE Some(BlockHeaderToBuffer(BlockHeaderFromBuffer(PowBytes(p.Category, p, x))))

\* pow_string(p, x): the serialized PowString, or undefined
pow_string(p, x) ==
  IF p.Mask.has THEN
    (IF x.GeneralPurposeBits.has
       THEN Some(BlockHeaderToBuffer(BlockHeaderFromBuffer(PowBytes(MaskedCategory(p, x), p, x))))
     ELSE None)
  ELSE IF x.GeneralPurposeBits.has THEN None
  ELSE Some(BlockHeaderToBuffer(BlockHeaderFromBuffer(PowBytes(p.Category, p, x))))

\* the hash of the header and the target as little-endian byte strings of one width
CompareIndex == 1 .. 36

HashLE(h) == [i \in CompareIndex |-> IF i <= Len(h) THEN h[i] ELSE 0]

\* BlockHeader.getTargetDifficulty: (bits & 0xffffff) doubled 8 * ((bits >>> 24) - 3) times
getTargetDifficulty(bits) ==
  LET b == writeUInt32LE(bits)
      shift == IF b[4] > 3 THEN b[4] - 3 ELSE 0
  IN [i \in CompareIndex |->
        IF i > shift /\ i <= shift + 3 THEN b[i - shift] ELSE 0]

\* BN.cmp on two little-endian byte strings of the same width
Cmp(x, y) ==
  LET diff == {i \in CompareIndex : x[i] # y[i]}
  IN IF diff = {} THEN 0
     ELSE LET top == CHOOSE i \in diff : \A j \in diff : j <= i
          IN IF x[top] > y[top] THEN 1 ELSE -1

\* BlockHeader.validProofOfWork on the hash of the header: this.id is read as
\* the reversed hex of the double SHA-256 of the header (the value of the hash
\* getter), so that new BN(this.id, 'hex') is the hash as a little-endian number
PowWithinTarget(hash, bits) ==
  ~ (Cmp(HashLE(hash), getTargetDifficulty(bits)) > 0)

\* BlockHeader.validProofOfWork
validProofOfWork(header) ==
  PowWithinTarget(Hash256(BlockHeaderToBuffer(header)), header.bits)

\* work.Proof.valid
ProofValid(p, x) ==
  IF pow_string(p, x).has
    THEN validProofOfWork(BlockHeaderFromBuffer(pow_string(p, x).buf))
  ELSE FALSE

(***************************************************************************)
(* Job.puzzle, Job.createBoostPowMetadata, Job.proof.                      *)
(***************************************************************************)
PuzzleThrow(msg) == [ok |-> FALSE, err |-> msg, puzzle |-> NoPuzzle]

PuzzleReturn(p) == [ok |-> TRUE, err |-> "", puzzle |-> p]

PuzzleNotRun == [ok |-> FALSE, err |-> "not run", puzzle |-> NoPuzzle]

\* the tail of Job.puzzle and of Job.proof: the mask goes with script version 2
BuildPuzzle(j, metaBegin, metaEnd) ==
  IF j.useGeneralPurposeBits
    THEN WorkPuzzle(j.Category, j.Content, j.Difficulty, metaBegin, metaEnd,
                    Some(generalPurposeBitsMask))
  ELSE WorkPuzzle(j.Category, j.Content, j.Difficulty, metaBegin, metaEnd, None)

\* a faulty Job.puzzle: a passed address always wins, a contract never throws
JobPuzzleLenient(j, addr) ==
  IF addr.has
    THEN PuzzleReturn(BuildPuzzle(j, j.Tag \o addr.buf, j.UserNonce \o j.AdditionalData))
  ELSE IF isContract(j)
    THEN PuzzleReturn(BuildPuzzle(j, j.Tag \o j.MinerPubKeyHash.buf,
                                  j.UserNonce \o j.AdditionalData))
  ELSE PuzzleThrow("invalid")

\* Job.puzzle(boostPowJob, address)
JobPuzzle(j, addr) ==
  IF isBounty(j) /\ addr.has
    THEN PuzzleReturn(BuildPuzzle(j, j.Tag \o addr.buf, j.UserNonce \o j.AdditionalData))
  ELSE IF isContract(j) /\ ~ addr.has
    THEN PuzzleReturn(BuildPuzzle(j, j.Tag \o j.MinerPubKeyHash.buf,
                                  j.UserNonce \o j.AdditionalData))
  ELSE PuzzleThrow("invalid")

\* Job.createBoostPowMetadata: the miner hash of the redeem comes first
createBoostPowMetadata(j, redeemMinerPubKeyHash, x) ==
  LET hash == IF redeemMinerPubKeyHash.has THEN redeemMinerPubKeyHash
              ELSE IF j.MinerPubKeyHash.has THEN j.MinerPubKeyHash
              ELSE None
  IN [ ok |-> hash.has,
       tag |-> j.Tag, minerPubKeyHash |-> hash.buf,
       extraNonce1 |-> x.ExtraNonce1, extraNonce2 |-> x.ExtraNonce2,
       userNonce |-> j.UserNonce, additionalData |-> j.AdditionalData ]

\* a faulty Job.proof: the mask is attached whatever the script version
JobProofAlwaysMasked(j, redeemMinerPubKeyHash, x) ==
  LET m == createBoostPowMetadata(j, redeemMinerPubKeyHash, x) IN
  IF ~ m.ok THEN PuzzleThrow("invalid proof")
  ELSE PuzzleReturn(WorkPuzzle(j.Category, j.Content, j.Difficulty,
                               m.tag \o m.minerPubKeyHash,
                               m.userNonce \o m.additionalData,
                               Some(generalPurposeBitsMask)))

\* Job.proof(boostPowJob, boostPowJobProof): the puzzle of the work.Proof it returns
JobProof(j, redeemMinerPubKeyHash, x) ==
  LET m == createBoostPowMetadata(j, redeemMinerPubKeyHash, x) IN
  IF ~ m.ok THEN PuzzleThrow("invalid proof")
  ELSE PuzzleReturn(BuildPuzzle(j, m.tag \o m.minerPubKeyHash,
                                m.userNonce \o m.additionalData))

(***************************************************************************)
(* The jobs the codec is exercised on.                                     *)
(***************************************************************************)
Seeds == 1..NumSeeds

\* targets of three shapes: the pdiff1 target, one with the largest positive
\* mantissa, one whose mantissa does not fit the 3 bytes of compact bits
DifficultyOf(s) ==
  CASE s = 1 -> [mant |-> 65535, exp |-> 26]
    [] s = 2 -> [mant |-> 8388607, exp |-> 29]
    [] s = 3 -> [mant |-> 305419896, exp |-> 20]
    [] OTHER -> NormTarget(s * 4099 + 1, s)

\* categories: a positive word, -1, and a word with only the sign bit and bit 0
CategoryOf(s) ==
  CASE s = 2 -> <<255, 255, 255, 255>>
    [] s = 3 -> <<1, 0, 0, 128>>
    [] OTHER -> Ramp(4, s + 20)

RECURSIVE SeqsUpTo(_, _)
SeqsUpTo(S, n) ==
  IF n = 0 THEN {<<>>}
  ELSE SeqsUpTo(S, n - 1)
         \cup {Append(q, b) : q \in {r \in SeqsUpTo(S, n - 1) : Len(r) = n - 1}, b \in S}

Tags == {<<>>, <<0>>, <<1>>, <<16>>, <<17>>, <<129>>, Ramp(2, 5), Ramp(20, 9)}

Datas == SeqsUpTo({1, 129}, MaxDataLen) \cup {<<0>>, Ramp(32, 3), Ramp(80, 4)}

MinerAddress == Ramp(20, 77)

Jobs ==
  { MkJob(Ramp(32, s), DifficultyOf(s), CategoryOf(s), tag, data, Ramp(4, s + 40),
          gpb, mpkh) :
      s \in Seeds, tag \in Tags, data \in Datas, gpb \in BOOLEAN,
      mpkh \in {None, Some(MinerAddress)} }

\* the jobs whose scripts are forged chunk by chunk
BaseJobs == {j \in Jobs : j.Tag = <<>> /\ j.AdditionalData = <<>> /\ j.Content = Ramp(32, 1)}

(***************************************************************************)
(* Scripts that do not come from toScript: Script.fromBuffer hands         *)
(* readScript the chunks of any byte string, so a script is the emitted    *)
(* one with one chunk replaced, or with a chunk dropped or added.          *)
(***************************************************************************)
ForgeKinds == {"payload", "resize", "pushdata1", "opcode", "truncate", "append"}

ForgeChunk(c, kind) ==
  CASE kind = "payload" /\ c.hasBuf /\ c.len > 0 ->
         [c EXCEPT !.buf = [i \in 1..c.len |-> (c.buf[i] + 1) % 256]]
    [] kind = "resize" /\ c.hasBuf /\ c.len > 0 ->
         _addBuffer(SubSeq(c.buf, 1, c.len - 1))
    [] kind = "pushdata1" /\ c.hasBuf ->
         [c EXCEPT !.opcodenum = Opcode.OP_PUSHDATA1]
    [] kind = "opcode" /\ c.hasBuf -> OpChunk(Opcode.OP_1)
    [] kind = "opcode" /\ ~ c.hasBuf -> OpChunk(Opcode.OP_NOP)
    [] OTHER -> c

Forge(chunks, pos, kind) ==
  CASE kind = "truncate" -> SubSeq(chunks, 1, Len(chunks) - 1)
    [] kind = "append" -> Append(chunks, OpChunk(Opcode.OP_NOP))
    [] OTHER -> [chunks EXCEPT ![pos] = ForgeChunk(chunks[pos], kind)]

\* the tail of a script from a position on, and the chunks of a body
TailFrom(chunks, start) == SubSeq(chunks, start, Len(chunks))

BodyChunks(ops) == ScriptAddAll(<<>>, ops)

(***************************************************************************)
(* The job codec as a state machine: a job is emitted as a script, a       *)
(* script may reach the parser altered, the parser reads it.               *)
(***************************************************************************)
NoPowString == [run |-> FALSE, from |-> "none", str |-> None, valid |-> FALSE]

NoFacade ==
  [run |-> FALSE, ok |-> FALSE, err |-> "", address |-> None, pubkey |-> <<>>]

NoTx == [version |-> 0, inputs |-> <<>>, outputs |-> <<>>, locktime |-> NoNumber]

NoBytes == [run |-> FALSE, kind |-> "none", bytes |-> <<>>]

NoEstimate == [run |-> FALSE, size |-> 0]

TxDefaults ==
  /\ tx = NoTx
  /\ written = NoBytes
  /\ estimate = NoEstimate

NoOutput == [value |-> 0, txid |-> <<>>, vout |-> 0]

NoRate == [num |-> 0, den |-> 1]

NoRedeem == [run |-> FALSE, ok |-> FALSE, err |-> "", script |-> <<>>]

NoSpend ==
  [run |-> FALSE, ok |-> FALSE, err |-> "", estimate |-> 0, fee |-> 0,
   redeem |-> NoRedeem, incomplete |-> NoTx, bytes |-> <<>>]

RedeemDefaults ==
  /\ output = NoOutput
  /\ rate = NoRate
  /\ spend = NoSpend

NoObject == [run |-> FALSE]

AttachDefaults ==
  /\ outObj = NoObject
  /\ inObj = NoObject
  /\ fproof = NoObject

NoJson == [kind |-> "none"]

NoParams == [given |-> FALSE]

NoCheck == [given |-> FALSE, run |-> FALSE]

JsonDefaults ==
  /\ sjson = NoJson
  /\ sback = NoObject
  /\ params = NoParams
  /\ made = NoObject
  /\ check = NoCheck

WorkDefaults ==
  /\ address = None
  /\ solution = MkSolution(<<>>, <<>>, <<>>, <<>>, None)
  /\ redeemHash = None
  /\ wpuzzle = PuzzleNotRun
  /\ wproof = PuzzleNotRun
  /\ powstr = NoPowString

FacadeDefaults ==
  /\ key = 0
  /\ facade = NoFacade

Init ==
  /\ job \in Jobs
  /\ script = <<>>
  /\ parsed = NotRun
  /\ WorkDefaults
  /\ FacadeDefaults
  /\ TxDefaults
  /\ RedeemDefaults
  /\ AttachDefaults
  /\ JsonDefaults

\* j.toScript()
ToScript ==
  /\ script = <<>>
  /\ script' = toScript(job)
  /\ UNCHANGED <<job, parsed, address, solution, redeemHash, wpuzzle, wproof, powstr,
                 key, facade,
                 txVars, redeemVars, attachVars, jsonVars, powVars>>

\* a script other than the emitted one is what reaches the parser
ReceiveForged ==
  /\ job \in BaseJobs
  /\ script = toScript(job)
  /\ parsed = NotRun
  /\ \E pos \in 1..Len(script), kind \in ForgeKinds :
        /\ kind \in {"truncate", "append"} => pos = Len(script)
        /\ Forge(script, pos, kind) # script
        /\ script' = Forge(script, pos, kind)
  /\ UNCHANGED <<job, parsed, address, solution, redeemHash, wpuzzle, wproof, powstr,
                 key, facade,
                 txVars, redeemVars, attachVars, jsonVars, powVars>>

\* Job.readScript(script)
ReadScript ==
  /\ script # <<>>
  /\ parsed = NotRun
  /\ parsed' = readScript(script)
  /\ UNCHANGED <<job, script, address, solution, redeemHash, wpuzzle, wproof, powstr,
                 key, facade,
                 txVars, redeemVars, attachVars, jsonVars, powVars>>

Next == ToScript \/ ReceiveForged \/ ReadScript

Spec == Init /\ [][Next]_vars

(***************************************************************************)
(* Properties of the job codec.                                            *)
(***************************************************************************)
\* C1: for every well-formed job j, Job.readScript(j.toScript()) returns a Job
\* whose content, category, bits, tag, additionalData, userNonce,
\* useGeneralPurposeBits and minerPubKeyHash equal those of j.
C1_RoundTrip ==
  (script = toScript(job) /\ parsed # NotRun) =>
     /\ parsed.ok
     /\ parsed.job.Content = job.Content
     /\ parsed.job.Category = job.Category
     /\ JobBits(parsed.job) = JobBits(job)
     /\ parsed.job.Tag = job.Tag
     /\ parsed.job.AdditionalData = job.AdditionalData
     /\ parsed.job.UserNonce = job.UserNonce
     /\ parsed.job.useGeneralPurposeBits = job.useGeneralPurposeBits
     /\ parsed.job.MinerPubKeyHash = job.MinerPubKeyHash

\* a version 2 contract job with a small-int tag and an OP_PUSHDATA1 payload has
\* been emitted and read back
C1_Witness ==
  /\ script = toScript(job)
  /\ parsed.ok
  /\ job.Tag = <<16>>
  /\ job.AdditionalData = Ramp(80, 4)
  /\ job.useGeneralPurposeBits
  /\ isContract(job)
  /\ script[7].opcodenum = Opcode.OP_16
  /\ script[9].opcodenum = Opcode.OP_PUSHDATA1

\* C2: Job.readScript accepts a script only when its chunks after the prefix
\* (from position 8 for bounty, 9 for contract) equal BODY_V1 or BODY_V2 in
\* every opcode and in every byte of every pushed constant.
C2_AcceptsOnlyExactBody ==
  parsed.ok =>
    LET tail == TailFrom(script, IF parsed.branch = "contract" THEN 10 ELSE 9)
    IN \/ tail = BodyChunks(scriptOperationsV1NoASICBoost)
       \/ tail = BodyChunks(scriptOperationsV2ASICBoost)

\* C3: a script that starts with "boostpow" OP_DROP is read as bounty iff
\* chunk[2] pushes 4 bytes and as contract iff chunk[2] pushes 20 bytes, is
\* rejected for any other chunk[2], and the Job returned is a contract iff the
\* contract branch was taken, a bounty otherwise.
C3_Classification ==
  ( /\ parsed # NotRun
    /\ Len(script) >= 3
    /\ script[1].hasBuf /\ script[1].buf = BoostPowFlag
    /\ script[2].opcodenum = Opcode.OP_DROP ) =>
    LET c == script[3]
        push4 == c.hasBuf /\ c.len = 4
        push20 == c.hasBuf /\ c.len = 20
    IN /\ (parsed.branch = "bounty") <=> push4
       /\ (parsed.branch = "contract") <=> push20
       /\ (~ push4 /\ ~ push20) => ~ parsed.ok
       /\ parsed.ok => /\ isContract(parsed.job) <=> (parsed.branch = "contract")
                       /\ isBounty(parsed.job) <=> ~ isContract(parsed.job)

(***************************************************************************)
(* The facade Puzzle: a Boost output with a private key assigned to it.    *)
(***************************************************************************)
Keys == 1..NumKeys

\* PrivateKey.compressed: the keys above NumKeys are the uncompressed ones
Compressed(k) == k <= NumKeys

\* PrivateKey.toPublicKey().toBuffer(): prefix and x, or 04, x and y
PubKey(k) == IF Compressed(k) THEN <<2>> \o Ramp(32, k) ELSE <<4>> \o Ramp(64, k)

\* Address.fromPublicKey(pub).toObject().hash
AddressOf(k) == Hash160(PubKey(k))

\* a faulty constructor: the key is never compared with the miner hash
NewPuzzleUnchecked(j, k) ==
  [run |-> TRUE, ok |-> TRUE, err |-> "",
   address |-> IF j.MinerPubKeyHash.has THEN None ELSE Some(AddressOf(k)),
   pubkey |-> PubKey(k)]

\* Puzzle.constructor(output, k)
NewPuzzle(j, k) ==
  IF j.MinerPubKeyHash.has /\ AddressOf(k) # j.MinerPubKeyHash.buf
    THEN [run |-> TRUE, ok |-> FALSE, err |-> "invalid parameters",
          address |-> None, pubkey |-> <<>>]
  ELSE [run |-> TRUE, ok |-> TRUE, err |-> "",
        address |-> IF j.MinerPubKeyHash.has THEN None ELSE Some(AddressOf(k)),
        pubkey |-> PubKey(k)]

\* Puzzle.address
FacadeAddress(f, j) == IF f.address.has THEN f.address ELSE j.MinerPubKeyHash

\* a faulty workPuzzle: the address getter is passed on, not _address
WorkPuzzleOfGetter(f, j) == JobPuzzle(j, FacadeAddress(f, j))

\* Puzzle.workPuzzle
workPuzzle(f, j) == JobPuzzle(j, f.address)

(***************************************************************************)
(* Puzzles, solutions and proofs of work.                                  *)
(***************************************************************************)
WorkJobs ==
  { MkJob(Ramp(32, s), DifficultyOf(s), CategoryOf(s), tag, data, Ramp(4, s + 40),
          gpb, mpkh) :
      s \in Seeds, tag \in {<<>>, Ramp(2, 5)},
      data \in SeqsUpTo({129}, MaxDataLen), gpb \in BOOLEAN,
      mpkh \in {None, Some(AddressOf(1))} }

GeneralPurposeBits == {None, Some(<<255, 255, 255, 255>>), Some(Ramp(4, 90))}

Solutions ==
  { MkSolution(Ramp(4, 60 + n), Ramp(4, 70 + n),
               Ramp(IF n % 2 = 1 THEN 8 ELSE 5, 80 + n), Ramp(4, 90 + n), gpb) :
      n \in 1..NumSolutions, gpb \in GeneralPurposeBits }

InitWork ==
  /\ job \in WorkJobs
  /\ address \in {None, Some(AddressOf(2))}
  /\ solution \in Solutions
  /\ redeemHash \in {None, Some(AddressOf(2))}
  /\ wpuzzle = PuzzleNotRun
  /\ wproof = PuzzleNotRun
  /\ powstr = NoPowString
  /\ script = <<>>
  /\ parsed = NotRun
  /\ key = 0
  /\ facade = NoFacade
  /\ TxDefaults
  /\ RedeemDefaults
  /\ AttachDefaults
  /\ JsonDefaults

\* Job.puzzle(job, address)
CallJobPuzzle ==
  /\ wpuzzle = PuzzleNotRun
  /\ wpuzzle' = JobPuzzle(job, address)
  /\ UNCHANGED <<job, script, parsed, address, solution, redeemHash, wproof, powstr,
                 key, facade,
                 txVars, redeemVars, attachVars, jsonVars, powVars>>

\* Job.proof(job, redeem): the redeem carries the solution and, for a bounty,
\* the miner hash
CallJobProof ==
  /\ wproof = PuzzleNotRun
  /\ wproof' = JobProof(job, redeemHash, solution)
  /\ UNCHANGED <<job, script, parsed, address, solution, redeemHash, wpuzzle, powstr,
                 key, facade,
                 txVars, redeemVars, attachVars, jsonVars, powVars>>

\* new work.Proof(puzzle, solution): string() and valid()
CallProofValid ==
  /\ powstr = NoPowString
  /\ \E from \in {"puzzle", "proof"} :
       LET r == IF from = "puzzle" THEN wpuzzle ELSE wproof IN
         /\ r.ok
         /\ powstr' = [run |-> TRUE, from |-> from,
                       str |-> pow_string(r.puzzle, solution),
                       valid |-> ProofValid(r.puzzle, solution)]
  /\ UNCHANGED <<job, script, parsed, address, solution, redeemHash, wpuzzle, wproof,
                 key, facade,
                 txVars, redeemVars, attachVars, jsonVars, powVars>>

NextWork == CallJobPuzzle \/ CallJobProof \/ CallProofValid

SpecWork == InitWork /\ [][NextWork]_vars

\* the puzzle the PoW string was made from
PowPuzzle == IF powstr.from = "puzzle" THEN wpuzzle.puzzle ELSE wproof.puzzle

(***************************************************************************)
(* Properties of the PoW string.                                           *)
(***************************************************************************)
\* bit i (0 = least significant) of a little-endian byte string
Bit(b, i) == (b[(i \div 8) + 1] \div (2 ^ (i % 8))) % 2

\* C4: when the puzzle has a mask and the solution has general purpose bits,
\* every bit of the 4-byte version field inside the mask is the bit of the
\* category and every bit outside the mask is the bit of the general purpose
\* bits; when both are absent the version field is the category unchanged.
C4_VersionField ==
  (powstr.run /\ powstr.str.has) =>
    LET p == PowPuzzle
        version == Slice(powstr.str.buf, 1, 4)
    IN IF p.Mask.has
         THEN \A i \in 0..31 :
                Bit(version, i) = IF Bit(p.Mask.buf, i) = 1 THEN Bit(p.Category, i)
                                  ELSE Bit(solution.GeneralPurposeBits.buf, i)
       ELSE version = p.Category

\* a masked puzzle whose category and general purpose bits differ both inside
\* and outside the mask has produced a PoW string
C4_Witness ==
  /\ powstr.run /\ powstr.str.has
  /\ PowPuzzle.Mask.has
  /\ PowPuzzle.Category = <<1, 0, 0, 128>>
  /\ solution.GeneralPurposeBits.buf = <<255, 255, 255, 255>>
  /\ Slice(powstr.str.buf, 1, 4) = <<1, 224, 255, 159>>

\* C5: when exactly one of puzzle.Mask and solution.GeneralPurposeBits is
\* present there is no PoW string and Proof.valid() is false; when the
\* presence of the two matches a PoW string is produced.
C5_PresenceMustMatch ==
  powstr.run =>
    IF PowPuzzle.Mask.has # solution.GeneralPurposeBits.has
      THEN ~ powstr.str.has /\ ~ powstr.valid
    ELSE powstr.str.has

\* a solution without bits was tried on a masked puzzle and gave nothing, and
\* some proof of matching presence is valid
C5_Witness ==
  /\ powstr.run
  /\ PowPuzzle.Mask.has /\ ~ solution.GeneralPurposeBits.has
  /\ ~ powstr.str.has

C5_WitnessValid ==
  /\ powstr.run /\ powstr.valid
  /\ PowPuzzle.Mask.has /\ solution.GeneralPurposeBits.has

\* C6: the PoW string is exactly 80 bytes: version (4), content (32), sha256d
\* of the metadata preimage (32), solution.time (4), compact bits of the
\* difficulty (4), solution.nonce (4), in this order.
C6_Layout ==
  (powstr.run /\ powstr.str.has) =>
    LET p == PowPuzzle
        str == powstr.str.buf
    IN /\ Len(str) = 80
       /\ Slice(str, 5, 36) = p.Content
       /\ Slice(str, 37, 68) = Hash256(meta(p, solution))
       /\ Slice(str, 69, 72) = solution.Time
       /\ Slice(str, 73, 76) = difficulty2bits(p.Difficulty)
       /\ Slice(str, 77, 80) = solution.Nonce
       /\ Len(p.Content) = 32 /\ Len(solution.Time) = 4 /\ Len(solution.Nonce) = 4

\* a PoW string was produced for a target whose bits differ from the time
C6_Witness ==
  /\ powstr.run /\ powstr.str.has
  /\ Len(powstr.str.buf) = 80
  /\ Slice(powstr.str.buf, 73, 76) = <<255, 255, 0, 29>>
  /\ Slice(powstr.str.buf, 69, 72) # Slice(powstr.str.buf, 73, 76)

\* the miner hash a puzzle of the job is built with
MinerHashUsed == IF isContract(job) THEN job.MinerPubKeyHash.buf ELSE address.buf

\* C7: the metadata preimage is tag, minerPubKeyHash, extraNonce1,
\* extraNonce2, userNonce, additionalData in this order, the puzzle of
\* Job.puzzle having MetaBegin = tag + minerPubKeyHash and MetaEnd =
\* userNonce + additionalData; its sha256d is the merkle root of the header.
C7_MetadataOrder ==
  wpuzzle.ok =>
    /\ wpuzzle.puzzle.MetaBegin = job.Tag \o MinerHashUsed
    /\ wpuzzle.puzzle.MetaEnd = job.UserNonce \o job.AdditionalData
    /\ meta(wpuzzle.puzzle, solution) =
         job.Tag \o MinerHashUsed \o solution.ExtraNonce1 \o solution.ExtraNonce2
           \o job.UserNonce \o job.AdditionalData
    /\ (powstr.run /\ powstr.from = "puzzle" /\ powstr.str.has) =>
         Slice(powstr.str.buf, 37, 68) =
           Hash256(job.Tag \o MinerHashUsed \o solution.ExtraNonce1
                     \o solution.ExtraNonce2 \o job.UserNonce \o job.AdditionalData)

\* a PoW string was made from the puzzle of a job with a tag and additional data
C7_Witness ==
  /\ wpuzzle.ok
  /\ job.Tag # <<>> /\ job.AdditionalData # <<>>
  /\ powstr.run /\ powstr.from = "puzzle" /\ powstr.str.has

\* C8: Job.puzzle succeeds exactly when the job is a bounty and an address is
\* passed, or the job is a contract and no address is passed; otherwise it
\* throws and builds no puzzle.  metaBegin uses the passed address for a
\* bounty and job.minerPubKeyHash for a contract.
C8_PuzzleAddress ==
  wpuzzle # PuzzleNotRun =>
    /\ wpuzzle.ok <=> \/ (isBounty(job) /\ address.has)
                      \/ (isContract(job) /\ ~ address.has)
    /\ ~ wpuzzle.ok => (wpuzzle.puzzle = NoPuzzle /\ wpuzzle.err = "invalid")
    /\ (wpuzzle.ok /\ isBounty(job)) => wpuzzle.puzzle.MetaBegin = job.Tag \o address.buf
    /\ (wpuzzle.ok /\ isContract(job)) =>
         wpuzzle.puzzle.MetaBegin = job.Tag \o job.MinerPubKeyHash.buf

\* Job.puzzle has thrown for a contract that was passed an address
C8_Witness ==
  /\ wpuzzle # PuzzleNotRun
  /\ ~ wpuzzle.ok
  /\ isContract(job) /\ address.has /\ address # job.MinerPubKeyHash

C8_WitnessBounty ==
  /\ wpuzzle.ok /\ isBounty(job) /\ address.has

\* C9: a puzzle built by Job.puzzle or Job.proof has a Mask iff
\* job.useGeneralPurposeBits, that is iff scriptVersion = 2, and the mask is
\* the constant 0xe0001fff.
MaskFollowsVersion(p) ==
  /\ p.Mask.has <=> job.useGeneralPurposeBits
  /\ p.Mask.has <=> (scriptVersion(job) = 2)
  /\ p.Mask.has => p.Mask.buf = <<255, 31, 0, 224>>

C9_MaskIffVersion2 ==
  /\ wpuzzle.ok => MaskFollowsVersion(wpuzzle.puzzle)
  /\ wproof.ok => MaskFollowsVersion(wproof.puzzle)

\* both Job.puzzle and Job.proof have built a puzzle of a version 1 job
C9_Witness ==
  /\ wpuzzle.ok /\ wproof.ok
  /\ ~ job.useGeneralPurposeBits
  /\ ~ wproof.puzzle.Mask.has

C9_WitnessMasked ==
  /\ wpuzzle.ok /\ wproof.ok
  /\ job.useGeneralPurposeBits
  /\ wproof.puzzle.Mask.has

(***************************************************************************)
(* The facade Puzzle as a state machine: an output is given a key, then    *)
(* asked for its work puzzle.                                              *)
(***************************************************************************)
FacadeJobs ==
  { MkJob(Ramp(32, s), DifficultyOf(s), CategoryOf(s), tag, data, Ramp(4, s + 40),
          gpb, mpkh) :
      s \in Seeds, tag \in {<<>>, Ramp(2, 5)},
      data \in SeqsUpTo({129}, MaxDataLen), gpb \in BOOLEAN,
      mpkh \in {None} \cup {Some(AddressOf(k)) : k \in Keys} }

InitFacade ==
  /\ job \in FacadeJobs
  /\ key \in Keys
  /\ facade = NoFacade
  /\ wpuzzle = PuzzleNotRun
  /\ script = <<>>
  /\ parsed = NotRun
  /\ address = None
  /\ solution = MkSolution(<<>>, <<>>, <<>>, <<>>, None)
  /\ redeemHash = None
  /\ wproof = PuzzleNotRun
  /\ powstr = NoPowString
  /\ TxDefaults
  /\ RedeemDefaults
  /\ AttachDefaults
  /\ JsonDefaults

\* new Puzzle(output, key)
ConstructPuzzle ==
  /\ ~ facade.run
  /\ facade' = NewPuzzle(job, key)
  /\ UNCHANGED <<job, script, parsed, address, solution, redeemHash, wpuzzle, wproof,
                 powstr, key,
                 txVars, redeemVars, attachVars, jsonVars, powVars>>

\* puzzle.workPuzzle, on a Puzzle that was constructed
GetWorkPuzzle ==
  /\ facade.run /\ facade.ok
  /\ wpuzzle = PuzzleNotRun
  /\ wpuzzle' = workPuzzle(facade, job)
  /\ UNCHANGED <<job, script, parsed, address, solution, redeemHash, wproof, powstr,
                 key, facade,
                 txVars, redeemVars, attachVars, jsonVars, powVars>>

NextFacade == ConstructPuzzle \/ GetWorkPuzzle

SpecFacade == InitFacade /\ [][NextFacade]_vars

\* C10: constructing the facade Puzzle for a contract output throws iff
\* HASH160 of the key's public key differs from job.minerPubKeyHash, and then
\* no Puzzle exists; for a bounty output the constructor does not fail and
\* stores the derived address.
C10_KeyMustMatchContract ==
  facade.run =>
    /\ isContract(job) =>
         /\ ~ facade.ok <=> (Hash160(PubKey(key)) # job.MinerPubKeyHash.buf)
         /\ ~ facade.ok => /\ facade.err = "invalid parameters"
                           /\ facade.address = None /\ facade.pubkey = <<>>
                           /\ wpuzzle = PuzzleNotRun
         /\ facade.ok => facade.address = None
    /\ isBounty(job) =>
         /\ facade.ok
         /\ facade.address = Some(Hash160(PubKey(key)))
    /\ facade.ok => FacadeAddress(facade, job).buf = Hash160(PubKey(key))

\* a contract output was given a key that is not the miner's and the
\* constructor has thrown
C10_Witness ==
  /\ facade.run /\ ~ facade.ok
  /\ isContract(job)
  /\ job.MinerPubKeyHash.buf = AddressOf(1) /\ key = 2
  /\ AddressOf(1) # AddressOf(2)

(***************************************************************************)
(* Transactions (transaction.ts).  An input carries both the script size   *)
(* estimated for it (incomplete_input.scriptSize) and the script it gets   *)
(* in the end (input.script); prevTxId is given as a Buffer; outputIndex   *)
(* is a number or a UInt32Little.                                          *)
(***************************************************************************)
\* a faulty varIntSize: the sizes in the reverse order
VarIntSizeReversed(n) ==
  IF n < 253 THEN 9
  ELSE IF n < 65536 THEN 5
  ELSE IF n \div 65536 < 65536 THEN 3
  ELSE 1

\* a faulty varIntSize: the first threshold off by one
VarIntSizeOffByOne(n) ==
  IF n <= 253 THEN 1
  ELSE IF n < 65536 THEN 3
  ELSE IF n \div 65536 < 65536 THEN 5
  ELSE 9

\* varIntSize (n < 0x100000000 is written n / 0x10000 < 0x10000)
varIntSize(n) ==
  IF n < 253 THEN 1
  ELSE IF n < 65536 THEN 3
  ELSE IF n \div 65536 < 65536 THEN 5
  ELSE 9

RECURSIVE SumOver(_, _, _)
SumOver(q, k, term) ==
  IF k > Len(q) THEN 0
  ELSE (IF term = "scriptSize" THEN 40 + varIntSize(q[k].scriptSize) + q[k].scriptSize
        ELSE IF term = "inputScript" THEN 40 + varIntSize(Len(q[k].script)) + Len(q[k].script)
        ELSE 8 + varIntSize(Len(q[k].script)) + Len(q[k].script))
       + SumOver(q, k + 1, term)

\* estimateTransactionSize(x)
estimateTransactionSize(x) ==
  8 + varIntSize(Len(x.outputs)) + varIntSize(Len(x.inputs))
    + SumOver(x.inputs, 1, "scriptSize") + SumOver(x.outputs, 1, "outputScript")

\* a faulty serializedSize: the locktime is not counted
SerializedSizeWithoutLocktime(x) ==
  4 + varIntSize(Len(x.outputs)) + varIntSize(Len(x.inputs))
    + SumOver(x.inputs, 1, "inputScript") + SumOver(x.outputs, 1, "outputScript")

\* serializedSize(x)
serializedSize(x) ==
  8 + varIntSize(Len(x.outputs)) + varIntSize(Len(x.inputs))
    + SumOver(x.inputs, 1, "inputScript") + SumOver(x.outputs, 1, "outputScript")

\* UInt32Little.fromNumber(n).buffer, for 0 <= n < 2^31
UInt32LittleFromNumber(n) ==
  << n % 256, (n \div 256) % 256, (n \div 65536) % 256, (n \div 16777216) % 256 >>

\* UInt32Little.fromNumber(0xffffffff).buffer
MaxUInt32Little == <<255, 255, 255, 255>>

\* Writer.write_var_int, for n < 2^31
write_var_int(n) ==
  IF n < 253 THEN << n >>
  ELSE IF n < 65536 THEN << 253, n % 256, n \div 256 >>
  ELSE << 254 >> \o UInt32LittleFromNumber(n)

\* a number or a UInt32Little given as outputIndex
NumberIndex(n) == [isField |-> FALSE, n |-> n]

FieldIndex(n) == [isField |-> TRUE, n |-> n]

\* the 4 bytes write_input ends an input with
InputSequenceBytes(i) ==
  IF i.outputIndex.isField THEN UInt32LittleFromNumber(i.outputIndex.n)
  ELSE IF i.outputIndex.n = 0 THEN MaxUInt32Little
  ELSE UInt32LittleFromNumber(i.outputIndex.n)

\* Writer.write_input
write_input(i) ==
  Concat(<< i.prevTxId,
            UInt32LittleFromNumber(i.outputIndex.n),
            write_var_int(Len(i.script)),
            i.script,
            InputSequenceBytes(i) >>)

\* Writer.write_satoshis: 8 bytes, little-endian, for n < 2^31
write_satoshis(n) == UInt32LittleFromNumber(n) \o <<0, 0, 0, 0>>

\* Writer.write_output
write_output(o) ==
  Concat(<< write_satoshis(o.satoshis), write_var_int(Len(o.script)), o.script >>)

\* Writer.write_transaction; version and locktime are numbers
write_transaction(t) ==
  Concat(<< UInt32LittleFromNumber(t.version), write_var_int(Len(t.inputs)) >>
         \o [k \in 1..Len(t.inputs) |-> write_input(t.inputs[k])]
         \o << write_var_int(Len(t.outputs)) >>
         \o [k \in 1..Len(t.outputs) |-> write_output(t.outputs[k])]
         \o << UInt32LittleFromNumber(IF t.locktime.has THEN t.locktime.n ELSE 0) >>)

\* writeTransaction: a Writer of serializedSize(t) bytes, filled from position 0;
\* Buffer.copy drops what does not fit and the rest of the buffer stays zero
WriterBuffer(size, bytes) ==
  [k \in 1..size |-> IF k <= Len(bytes) THEN bytes[k] ELSE 0]

writeTransaction(t) == WriterBuffer(serializedSize(t), write_transaction(t))

\* writeIncompleteTransaction: every input script is empty
writeIncompleteTransaction(t) ==
  writeTransaction([t EXCEPT !.inputs =
     [k \in 1..Len(t.inputs) |-> [t.inputs[k] EXCEPT !.script = <<>>]]])

(***************************************************************************)
(* Reading a serialized transaction back (bsv.Transaction.fromBuffer).     *)
(***************************************************************************)
\* little-endian number of w bytes at 1-based position pos, below 2^31
RECURSIVE ReadLE(_, _, _)
ReadLE(b, pos, w) ==
  IF w = 0 THEN 0 ELSE b[pos] + 256 * ReadLE(b, pos + 1, w - 1)

\* BufferReader.readVarintNum, for numbers below 2^31
readVarintNum(b, pos) ==
  IF b[pos] = 253 THEN [n |-> ReadLE(b, pos + 1, 2), next |-> pos + 3]
  ELSE IF b[pos] = 254 THEN [n |-> ReadLE(b, pos + 1, 4), next |-> pos + 5]
  ELSE IF b[pos] = 255 THEN [n |-> ReadLE(b, pos + 1, 4), next |-> pos + 9]
  ELSE [n |-> b[pos], next |-> pos + 1]

\* Input.fromBufferReader: prevTxId, outputIndex, script, sequenceNumber
InputFromBufferReader(b, pos) ==
  LET size == readVarintNum(b, pos + 36) IN
  [item |-> [prevTxId |-> Slice(b, pos, pos + 31),
             outputIndex |-> Slice(b, pos + 32, pos + 35),
             script |-> Slice(b, size.next, size.next + size.n - 1),
             sequence |-> Slice(b, size.next + size.n, size.next + size.n + 3)],
   next |-> size.next + size.n + 4]

\* Output.fromBufferReader
OutputFromBufferReader(b, pos) ==
  LET size == readVarintNum(b, pos + 8) IN
  [item |-> [satoshis |-> ReadLE(b, pos, 4),
             script |-> Slice(b, size.next, size.next + size.n - 1)],
   next |-> size.next + size.n]

RECURSIVE ReadItems(_, _, _, _)
ReadItems(b, pos, count, inputs) ==
  IF count = 0 THEN [items |-> <<>>, next |-> pos]
  ELSE LET first == IF inputs THEN InputFromBufferReader(b, pos)
                    ELSE OutputFromBufferReader(b, pos)
           rest == ReadItems(b, first.next, count - 1, inputs)
       IN [items |-> <<first.item>> \o rest.items, next |-> rest.next]

\* Transaction.fromBufferReader, once inputs and outputs are read
TransactionFromParts(b, ins, outs) ==
  [version |-> Slice(b, 1, 4), inputs |-> ins.items, outputs |-> outs.items,
   locktime |-> Slice(b, outs.next, outs.next + 3),
   length |-> outs.next + 3]

\* Transaction.fromBufferReader, once the inputs are read
TransactionFromInputs(b, ins) ==
  TransactionFromParts(b, ins,
    ReadItems(b, readVarintNum(b, ins.next).next, readVarintNum(b, ins.next).n, FALSE))

\* Transaction.fromBufferReader
TransactionFromBuffer(b) ==
  TransactionFromInputs(b,
    ReadItems(b, readVarintNum(b, 5).next, readVarintNum(b, 5).n, TRUE))

(***************************************************************************)
(* Transactions are estimated and written.                                 *)
(***************************************************************************)
MaxInputs == 2

TxInput(index, size, inputScript, sequenceNumber) ==
  [prevTxId |-> Ramp(32, 11), outputIndex |-> index, scriptSize |-> size,
   script |-> inputScript, sequenceNumber |-> sequenceNumber]

\* script sizes on both sides of the thresholds of the variable-length integer
ScriptSizes == {0, 152, 252, 253, 65535, 65536}

TxInputs ==
  { TxInput(index, size, inputScript, sequenceNumber) :
      index \in {NumberIndex(0), NumberIndex(1), NumberIndex(2), FieldIndex(0), FieldIndex(1)},
      size \in ScriptSizes,
      inputScript \in {Ramp(3, 4), Ramp(253, 5)},
      sequenceNumber \in {NoNumber, Number(7)} }

MoreInputs ==
  { TxInput(NumberIndex(3), 152, Ramp(2, 6), NoNumber),
    TxInput(NumberIndex(0), 253, <<>>, Number(1)) }

TxOutputLists ==
  { << [satoshis |-> 8264, script |-> Ramp(25, 7)] >>,
    << [satoshis |-> 8264, script |-> Ramp(25, 7)], [satoshis |-> 0, script |-> Ramp(17, 8)] >>,
    << [satoshis |-> 1, script |-> Ramp(253, 9)], [satoshis |-> 0, script |-> <<>>] >> }

Transactions ==
  { [version |-> 1, inputs |-> <<first>> \o more, outputs |-> outs, locktime |-> NoNumber] :
      first \in TxInputs,
      more \in UNION { [1..n -> MoreInputs] : n \in 0..(MaxInputs - 1) },
      outs \in TxOutputLists }

InitTx ==
  /\ tx \in Transactions
  /\ written = NoBytes
  /\ estimate = NoEstimate
  /\ job = NoJob
  /\ script = <<>>
  /\ parsed = NotRun
  /\ WorkDefaults
  /\ FacadeDefaults
  /\ RedeemDefaults
  /\ AttachDefaults
  /\ JsonDefaults

\* estimateTransactionSize(tx)
EstimateTransactionSize ==
  /\ ~ estimate.run
  /\ estimate' = [run |-> TRUE, size |-> estimateTransactionSize(tx)]
  /\ UNCHANGED <<job, script, parsed, address, solution, redeemHash, wpuzzle, wproof,
                 powstr, key, facade, tx, written, redeemVars, attachVars, jsonVars, powVars>>

\* writeTransaction(tx)
WriteTransaction ==
  /\ ~ written.run
  /\ written' = [run |-> TRUE, kind |-> "complete", bytes |-> writeTransaction(tx)]
  /\ UNCHANGED <<job, script, parsed, address, solution, redeemHash, wpuzzle, wproof,
                 powstr, key, facade, tx, estimate, redeemVars, attachVars, jsonVars, powVars>>

\* writeIncompleteTransaction(tx)
WriteIncompleteTransaction ==
  /\ ~ written.run
  /\ written' = [run |-> TRUE, kind |-> "incomplete",
                 bytes |-> writeIncompleteTransaction(tx)]
  /\ UNCHANGED <<job, script, parsed, address, solution, redeemHash, wpuzzle, wproof,
                 powstr, key, facade, tx, estimate, redeemVars, attachVars, jsonVars, powVars>>

NextTx == EstimateTransactionSize \/ WriteTransaction \/ WriteIncompleteTransaction

SpecTx == InitTx /\ [][NextTx]_vars

\* the size of the variable-length integer as the documentation gives it
\* (the 9-byte case needs a count of 2^32 or more)
DocumentedVarIntSize(n) ==
  CASE n < 253 -> 1
    [] n >= 253 /\ n < 65536 -> 3
    [] OTHER -> 5

RECURSIVE DocumentedInputsSize(_)
DocumentedInputsSize(q) ==
  IF q = <<>> THEN 0
  ELSE 40 + DocumentedVarIntSize(Head(q).scriptSize) + Head(q).scriptSize
       + DocumentedInputsSize(Tail(q))

RECURSIVE DocumentedOutputsSize(_)
DocumentedOutputsSize(q) ==
  IF q = <<>> THEN 0
  ELSE 8 + DocumentedVarIntSize(Len(Head(q).script)) + Len(Head(q).script)
       + DocumentedOutputsSize(Tail(q))

C19_SequenceField ==
  (written.run /\ written.kind = "complete") =>
    LET back == TransactionFromBuffer(written.bytes) IN
    \A k \in 1..Len(tx.inputs) :
      back.inputs[k].sequence =
        IF tx.inputs[k].sequenceNumber.has
          THEN UInt32LittleFromNumber(tx.inputs[k].sequenceNumber.n)
        ELSE MaxUInt32Little

\* the written transaction reads back with the scripts and indexes given, so
\* the sequence field is read at its place
C19_ReadsBack ==
  written.run =>
    LET back == TransactionFromBuffer(written.bytes) IN
    /\ back.length = Len(written.bytes)
    /\ Len(back.inputs) = Len(tx.inputs)
    /\ \A k \in 1..Len(tx.inputs) :
         /\ back.inputs[k].prevTxId = tx.inputs[k].prevTxId
         /\ back.inputs[k].outputIndex = UInt32LittleFromNumber(tx.inputs[k].outputIndex.n)
         /\ back.inputs[k].script =
              IF written.kind = "complete" THEN tx.inputs[k].script ELSE <<>>
    /\ \A k \in 1..Len(tx.outputs) :
         /\ back.outputs[k].satoshis = tx.outputs[k].satoshis
         /\ back.outputs[k].script = tx.outputs[k].script

(***************************************************************************)
(* The facade Output, Input and Proof.  A Digest32 is an object: ref tells *)
(* objects apart, ref 0 marks one made on the spot by Digest32.fromHex.    *)
(* A txid attached to a Job or carried by a Redeem is a hex string, kept   *)
(* as the bytes it denotes.                                                *)
(***************************************************************************)
Undefined == [has |-> FALSE, ref |-> 0, buf |-> <<>>]

Digest32(ref, b) == [has |-> TRUE, ref |-> ref, buf |-> b]

\* Digest32.fromHex(hex): a new object
Digest32FromHex(hex) == Digest32(0, hex.buf)

\* if (x) for a number or undefined
TruthyNumber(x) == x.has /\ x.n # 0

\* if (x) for a string or undefined
TruthyString(x) == x.has /\ x.buf # <<>>

\* a === b for Digest32 objects or undefined
StrictEqual(a, b) ==
  IF a.has /\ b.has THEN a.ref # 0 /\ a.ref = b.ref ELSE a.has = b.has

\* a == b for numbers or undefined
LooseEqual(a, b) ==
  IF a.has /\ b.has THEN a.n = b.n ELSE a.has = b.has

ObjectThrow(msg) == [run |-> TRUE, ok |-> FALSE, err |-> msg]

\* Output.constructor(job, value, txid, vout); attached is what job.value,
\* job.txid and job.vout return
NewOutput(attached, value, txid, vout) ==
  IF ~ value.has /\ ~ attached.value.has
    THEN ObjectThrow("invalid output: missing parameter value")
  ELSE IF ~ txid.has /\ ~ attached.txid.has
    THEN ObjectThrow("invalid output: missing parameter txid")
  ELSE IF ~ vout.has /\ ~ attached.vout.has
    THEN ObjectThrow("invalid output: missing parameter vout")
  ELSE [run |-> TRUE, ok |-> TRUE, err |-> "", script |-> attached,
        _value |-> value, _txid |-> txid, _vout |-> vout]

\* Output.value
OutputValue(o) == IF TruthyNumber(o.script.value) THEN o.script.value ELSE o._value

\* Output.txid
OutputTxid(o) ==
  IF TruthyString(o.script.txid) THEN Digest32FromHex(o.script.txid) ELSE o._txid

\* Output.vout
OutputVout(o) == IF TruthyNumber(o.script.vout) THEN o.script.vout ELSE o._vout

\* Input.constructor(script, txid, vin, spentTxid, spentVout); carried is what
\* the Redeem's txid, vin, spentTxid and spentVout hold
NewInput(carried, txid, vin, spentTxid, spentVout) ==
  IF ~ txid.has /\ ~ carried.txid.has
    THEN ObjectThrow("invalid output: missing parameter txid")
  ELSE IF ~ vin.has /\ ~ carried.vin.has
    THEN ObjectThrow("invalid output: missing parameter vout")
  ELSE IF ~ spentTxid.has /\ ~ carried.txid.has
    THEN ObjectThrow("invalid output: missing parameter txid")
  ELSE IF ~ spentVout.has /\ ~ carried.vin.has
    THEN ObjectThrow("invalid output: missing parameter vout")
  ELSE [run |-> TRUE, ok |-> TRUE, err |-> "", script |-> carried,
        _txid |-> txid, _vin |-> vin,
        _spentTxid |-> Undefined, _spentVout |-> NoNumber]

\* Input.txid
InputTxid(i) ==
  IF TruthyString(i.script.txid) THEN Digest32FromHex(i.script.txid) ELSE i._txid

\* Input.vin
InputVin(i) == IF TruthyNumber(i.script.vin) THEN i.script.vin ELSE i._vin

\* Input.spentTxid
InputSpentTxid(i) ==
  IF TruthyString(i.script.spentTxid) THEN Digest32FromHex(i.script.spentTxid)
  ELSE i._spentTxid

\* Input.spentVout
InputSpentVout(i) ==
  IF TruthyNumber(i.script.spentVout) THEN i.script.spentVout ELSE i._spentVout

\* Proof.valid of the facade Proof(o, i), p the puzzle of its work proof
FacadeProofValid(o, i, p, x) ==
  /\ StrictEqual(OutputTxid(o), InputSpentTxid(i))
  /\ LooseEqual(OutputVout(o), InputSpentVout(i))
  /\ ProofValid(p, x)

\* new Proof(o, i) and valid(): the constructor runs Job.proof
NewProof(o, i, j, redeemMinerPubKeyHash, x) ==
  LET p == JobProof(j, redeemMinerPubKeyHash, x) IN
  IF ~ p.ok THEN [run |-> TRUE, ok |-> FALSE, err |-> p.err, valid |-> FALSE,
                  work |-> FALSE]
  ELSE [run |-> TRUE, ok |-> TRUE, err |-> "",
        valid |-> FacadeProofValid(o, i, p.puzzle, x),
        work |-> ProofValid(p.puzzle, x)]

(***************************************************************************)
(* Outputs, inputs and proofs are constructed and read.                    *)
(***************************************************************************)
TxidA == Ramp(32, 21)

TxidB == Ramp(32, 22)

OutputArgs ==
  { [attached |-> [value |-> jvalue, txid |-> jtxid, vout |-> jvout],
     value |-> value, txid |-> txid, vout |-> vout] :
      jvalue \in {NoNumber, Number(5000)},
      jtxid \in {None, Some(TxidA)},
      jvout \in {NoNumber, Number(0), Number(1)},
      value \in {NoNumber, Number(7000)},
      txid \in {Undefined, Digest32(1, TxidB)},
      vout \in {NoNumber, Number(0), Number(2)} }

InputArgs ==
  { [carried |-> [txid |-> rtxid, vin |-> rvin, spentTxid |-> rspentTxid,
                  spentVout |-> rspentVout],
     txid |-> txid, vin |-> vin, spentTxid |-> spentTxid, spentVout |-> spentVout] :
      rtxid \in {None, Some(Ramp(32, 23))},
      rvin \in {NoNumber, Number(0), Number(1)},
      rspentTxid \in {None, Some(TxidA)},
      rspentVout \in {NoNumber, Number(0), Number(1)},
      txid \in {Undefined, Digest32(3, Ramp(32, 24))},
      vin \in {NoNumber, Number(2)},
      spentTxid \in {Undefined, Digest32(1, TxidB)},
      spentVout \in {NoNumber, Number(2)} }

\* outputs and inputs a Proof is made of: every parameter comes from one source
ProofOutputArgs ==
  { a \in OutputArgs :
      /\ a.value.has /\ ~ a.attached.value.has
      /\ a.txid.has # a.attached.txid.has
      /\ a.vout.has # a.attached.vout.has
      /\ a.vout.n + a.attached.vout.n # 0 }

ProofInputArgs ==
  { a \in InputArgs :
      /\ a.txid.has /\ a.vin.has /\ a.carried.txid.has /\ a.carried.vin.n = 1
      /\ a.spentTxid.has # a.carried.spentTxid.has
      /\ a.spentVout.has # a.carried.spentVout.has
      /\ a.spentVout.n + a.carried.spentVout.n # 0 }

AttachJobs ==
  { MkJob(Ramp(32, 2), DifficultyOf(2), CategoryOf(2), <<>>, <<>>, Ramp(4, 42), gpb, None) :
      gpb \in BOOLEAN }

InitAttach ==
  /\ \/ /\ outObj \in { [run |-> FALSE, args |-> a] : a \in ProofOutputArgs }
        /\ inObj \in { [run |-> FALSE, args |-> a] : a \in ProofInputArgs }
        /\ job \in AttachJobs
        /\ solution \in Solutions
     \/ /\ outObj \in { [run |-> FALSE, args |-> a] : a \in OutputArgs }
        /\ inObj \in { [run |-> FALSE, args |-> a] : a \in InputArgs }
        /\ (outObj.args \in ProofOutputArgs /\ outObj.args.attached.vout.n = 1
              /\ outObj.args.attached.txid.has)
           \/ (inObj.args \in ProofInputArgs /\ inObj.args.carried.spentVout.n = 1
                 /\ inObj.args.carried.spentTxid.has)
        /\ job \in { j \in AttachJobs : ~ j.useGeneralPurposeBits }
        /\ solution \in { x \in Solutions : ~ x.GeneralPurposeBits.has /\ x.Time = Ramp(4, 61) }
  /\ redeemHash = Some(AddressOf(1))
  /\ fproof = NoObject
  /\ script = <<>>
  /\ parsed = NotRun
  /\ address = None
  /\ wpuzzle = PuzzleNotRun
  /\ wproof = PuzzleNotRun
  /\ powstr = NoPowString
  /\ FacadeDefaults
  /\ TxDefaults
  /\ RedeemDefaults
  /\ JsonDefaults

\* new Output(job, value, txid, vout)
ConstructOutput ==
  /\ ~ outObj.run
  /\ outObj' = [run |-> TRUE, args |-> outObj.args,
                obj |-> NewOutput(outObj.args.attached, outObj.args.value,
                                  outObj.args.txid, outObj.args.vout)]
  /\ UNCHANGED <<job, script, parsed, address, solution, redeemHash, wpuzzle, wproof,
                 powstr, key, facade, txVars, redeemVars, inObj, fproof, jsonVars, powVars>>

\* new Input(redeem, txid, vin, spentTxid, spentVout)
ConstructInput ==
  /\ ~ inObj.run
  /\ inObj' = [run |-> TRUE, args |-> inObj.args,
               obj |-> NewInput(inObj.args.carried, inObj.args.txid, inObj.args.vin,
                                inObj.args.spentTxid, inObj.args.spentVout)]
  /\ UNCHANGED <<job, script, parsed, address, solution, redeemHash, wpuzzle, wproof,
                 powstr, key, facade, txVars, redeemVars, outObj, fproof, jsonVars, powVars>>

\* new Proof(output, input).valid()
CheckProof ==
  /\ outObj.run /\ outObj.obj.ok
  /\ inObj.run /\ inObj.obj.ok
  /\ ~ fproof.run
  /\ fproof' = NewProof(outObj.obj, inObj.obj, job, redeemHash, solution)
  /\ UNCHANGED <<job, script, parsed, address, solution, redeemHash, wpuzzle, wproof,
                 powstr, key, facade, txVars, redeemVars, outObj, inObj, jsonVars, powVars>>

NextAttach == ConstructOutput \/ ConstructInput \/ CheckProof

SpecAttach == InitAttach /\ [][NextAttach]_vars

\* the value of a parameter as the documentation gives it: the one attached to
\* the script when there is one, otherwise the explicit argument
ScriptFirst(fromScript, explicit) == IF fromScript.has THEN fromScript ELSE explicit

\* C17: an Output whose constructor returned has value, txid and vout defined,
\* each the one attached to the Job when the Job has one and otherwise the
\* explicit argument, index 0 and an attached vout of 0 included; the
\* constructor throws when one of the three comes from neither source.
C17_OutputGetters ==
  outObj.run =>
    LET a == outObj.args
        o == outObj.obj
    IN /\ o.ok <=> /\ a.value.has \/ a.attached.value.has
                   /\ a.txid.has \/ a.attached.txid.has
                   /\ a.vout.has \/ a.attached.vout.has
       /\ o.ok =>
            /\ OutputValue(o).has /\ OutputTxid(o).has /\ OutputVout(o).has
            /\ OutputValue(o).n = ScriptFirst(a.attached.value, a.value).n
            /\ OutputTxid(o).buf = ScriptFirst(a.attached.txid, a.txid).buf
            /\ OutputVout(o).n = ScriptFirst(a.attached.vout, a.vout).n

\* the part of C17 that holds: the constructor throws exactly when a parameter
\* is missing from both sources
C17_ThrowsWhenMissing ==
  outObj.run =>
    LET a == outObj.args IN
    outObj.obj.ok <=> /\ a.value.has \/ a.attached.value.has
                      /\ a.txid.has \/ a.attached.txid.has
                      /\ a.vout.has \/ a.attached.vout.has

\* a getter's result is one of the values available for the parameter
NumberFromSources(got, carried, explicit) ==
  /\ got.has
  /\ (carried.has /\ got.n = carried.n) \/ (explicit.has /\ got.n = explicit.n)

DigestFromSources(got, carried, explicit) ==
  /\ got.has
  /\ (carried.has /\ got.buf = carried.buf) \/ (explicit.has /\ got.buf = explicit.buf)

\* C18: an Input whose constructor returned has txid, vin, spentTxid and
\* spentVout each equal to the explicit argument or to the one the Redeem
\* carries; the constructor throws when one of the four comes from neither
\* source; an explicit spentTxid / spentVout is what the getter returns.
C18_InputGetters ==
  inObj.run =>
    LET a == inObj.args
        i == inObj.obj
    IN /\ i.ok <=> /\ a.txid.has \/ a.carried.txid.has
                   /\ a.vin.has \/ a.carried.vin.has
                   /\ a.spentTxid.has \/ a.carried.spentTxid.has
                   /\ a.spentVout.has \/ a.carried.spentVout.has
       /\ i.ok =>
            /\ DigestFromSources(InputTxid(i), a.carried.txid, a.txid)
            /\ NumberFromSources(InputVin(i), a.carried.vin, a.vin)
            /\ DigestFromSources(InputSpentTxid(i), a.carried.spentTxid, a.spentTxid)
            /\ NumberFromSources(InputSpentVout(i), a.carried.spentVout, a.spentVout)

\* the part of C18 that holds: txid is never replaced by the spent outpoint
C18_TxidKept ==
  (inObj.run /\ inObj.obj.ok /\ ~ inObj.args.carried.txid.has) =>
    InputTxid(inObj.obj) = inObj.args.txid

\* C16: valid() of the facade Proof is true iff the output's txid and the
\* input's spentTxid are the same 32 bytes, the output's vout equals the
\* input's spentVout, and the work proof is valid.
C16_ValidIffMatching ==
  (fproof.run /\ fproof.ok) =>
    (fproof.valid <=>
       /\ OutputTxid(outObj.obj).has /\ InputSpentTxid(inObj.obj).has
       /\ OutputTxid(outObj.obj).buf = InputSpentTxid(inObj.obj).buf
       /\ OutputVout(outObj.obj).has /\ InputSpentVout(inObj.obj).has
       /\ OutputVout(outObj.obj).n = InputSpentVout(inObj.obj).n
       /\ fproof.work)

\* what is observed instead: valid() is never true
C16_NeverValid == fproof.run => ~ fproof.valid

\* a Proof whose halves match by value and whose work proof is valid
C16_MatchingPair ==
  /\ fproof.run /\ fproof.ok /\ fproof.work
  /\ TruthyString(outObj.args.attached.txid)
  /\ TruthyString(inObj.args.carried.spentTxid)
  /\ outObj.args.attached.txid.buf = inObj.args.carried.spentTxid.buf
  /\ OutputVout(outObj.obj).has
  /\ LooseEqual(OutputVout(outObj.obj), InputSpentVout(inObj.obj))

(***************************************************************************)
(* Redeeming: the unlocking script, the signature, the transaction the     *)
(* facade Puzzle builds (Puzzle.redeem, Puzzle.createRedeemTransaction).   *)
(***************************************************************************)
\* the bytes one chunk contributes to Script.toBuffer
ChunkToBuffer(chunk) ==
  IF ~ chunk.hasBuf THEN << chunk.opcodenum >>
  ELSE IF chunk.opcodenum < Opcode.OP_PUSHDATA1 THEN << chunk.opcodenum >> \o chunk.buf
  ELSE IF chunk.opcodenum = Opcode.OP_PUSHDATA1
    THEN << chunk.opcodenum, chunk.len >> \o chunk.buf
  ELSE IF chunk.opcodenum = Opcode.OP_PUSHDATA2
    THEN << chunk.opcodenum, chunk.len % 256, chunk.len \div 256 >> \o chunk.buf
  ELSE << chunk.opcodenum >> \o UInt32LittleFromNumber(chunk.len) \o chunk.buf

\* BufferWriter.concat over the buffers lo..hi, halving the range
RECURSIVE ConcatRange(_, _, _)
ConcatRange(bufs, lo, hi) ==
  IF lo > hi THEN <<>>
  ELSE IF lo = hi THEN bufs[lo]
  ELSE ConcatRange(bufs, lo, (lo + hi) \div 2) \o ConcatRange(bufs, (lo + hi) \div 2 + 1, hi)

\* Script.toBuffer
ScriptToBuffer(chunks) ==
  ConcatRange([k \in 1..Len(chunks) |-> ChunkToBuffer(chunks[k])], 1, Len(chunks))

\* Redeem.expectedSize(bounty, v2, compressed): one byte per push, a signature
\* of 73 bytes, the public key, nonce, time, extra nonce 1 of 4 bytes each,
\* extra nonce 2 of 8 bytes in version 1 and of the longest allowed (32) in
\* version 2, where the 4 general purpose bits are pushed too, and the miner
\* hash of a bounty
RedeemExpectedSize(bounty, v2, compressedKey) ==
  (6 + (IF v2 THEN 1 ELSE 0) + (IF bounty THEN 1 ELSE 0))
  + 73 + (IF compressedKey THEN 33 ELSE 65) + 4 + 4
  + (IF v2 THEN 32 + 4 ELSE 8) + 4 + (IF bounty THEN 20 ELSE 0)

\* Puzzle.expectedRedeemScriptSize
expectedRedeemScriptSize(j, k) ==
  RedeemExpectedSize(isBounty(j), scriptVersion(j) = 2, Compressed(k))

\* Redeem.fromSolution(signature, pubkey, solution, address).toBuffer()
RedeemScript(signature, pubkey, x, addr) ==
  ScriptToBuffer(ScriptAddAll(<<>>,
       << BufElem(signature), BufElem(pubkey), BufElem(x.Nonce) >>
    \o (IF x.GeneralPurposeBits.has THEN << BufElem(x.GeneralPurposeBits.buf) >> ELSE <<>>)
    \o << BufElem(x.Time), BufElem(x.ExtraNonce2), BufElem(x.ExtraNonce1) >>
    \o (IF addr.has THEN << BufElem(addr.buf) >> ELSE <<>>)))

\* Redeem.fromScript(script).signature: the first push of the unlocking script
RedeemSignature(unlocking) == Slice(unlocking, 2, 1 + unlocking[1])

\* SIGHASH_ALL | SIGHASH_FORKID
SighashAllForkId == 65

\* the digest signed for input inputIndex (0-based) of the transaction in
\* bytes: version, all outpoints, all sequences, the outpoint spent, the script
\* code, the satoshis spent, the sequence, all outputs, locktime, sighash type;
\* input scripts are not part of it
SighashPreimage(t, spent, scriptCode, satoshis, sigtype) ==
     Hash256(Concat(<<
       t.version,
       Hash256(Concat([k \in 1..Len(t.inputs) |->
                         t.inputs[k].prevTxId \o t.inputs[k].outputIndex])),
       Hash256(Concat([k \in 1..Len(t.inputs) |-> t.inputs[k].sequence])),
       spent.prevTxId, spent.outputIndex,
       write_var_int(Len(scriptCode)), scriptCode,
       write_satoshis(satoshis),
       spent.sequence,
       Hash256(Concat([k \in 1..Len(t.outputs) |->
                         write_output(t.outputs[k])])),
       t.locktime,
       UInt32LittleFromNumber(sigtype) >>))

SighashOf(t, inputIndex, scriptCode, satoshis, sigtype) ==
  SighashPreimage(t, t.inputs[inputIndex + 1], scriptCode, satoshis, sigtype)

Sighash(bytes, inputIndex, scriptCode, satoshis, sigtype) ==
  SighashOf(TransactionFromBuffer(bytes), inputIndex, scriptCode, satoshis, sigtype)

\* Sighash.sign(...).toBuffer(): a DER signature of 70 to 72 bytes that only
\* the key's owner can make for the digest; which length depends on the digest
Signature(pubkey, digest) == Digest(pubkey \o digest, 70 + (digest[1] % 3), 17)

\* a faulty sign: the satoshis of the output spent are left out
SignWithoutSatoshis(k, doc, sigtype) ==
  Signature(PubKey(k),
            Sighash(writeIncompleteTransaction(doc.incompleteTransaction),
                    doc.inputIndex, doc.scriptCode, 0, sigtype))
    \o << sigtype % 256 >>

\* tx_build.sign(k, doc, sigtype), doc.incompleteTransaction an object
sign(k, doc, sigtype) ==
  Signature(PubKey(k),
            Sighash(writeIncompleteTransaction(doc.incompleteTransaction),
                    doc.inputIndex, doc.scriptCode, doc.satoshis, sigtype))
    \o << sigtype % 256 >>

\* tx_build.verify(pubkey, sig, doc), doc.incompleteTransaction a Buffer; the
\* last byte of sig is the sighash type (Signature.fromTxFormat)
verify(pubkey, sig, doc) ==
  /\ Len(sig) > 1
  /\ Slice(sig, 1, Len(sig) - 1) =
       Signature(pubkey, Sighash(doc.incompleteTransaction, doc.inputIndex,
                                 doc.scriptCode, doc.satoshis, sig[Len(sig)]))

\* a faulty redeem: the solution is not checked
PuzzleRedeemUnchecked(f, j, k, out, x, incomplete, inputIndex) ==
  [run |-> TRUE, ok |-> TRUE, err |-> "",
   script |-> RedeemScript(
       sign(k, [satoshis |-> out.value, scriptCode |-> ScriptToBuffer(toScript(j)),
                inputIndex |-> inputIndex, incompleteTransaction |-> incomplete],
            SighashAllForkId),
       f.pubkey, x, f.address)]

\* Puzzle.redeem(solution, incomplete_transaction, input_index)
PuzzleRedeem(f, j, k, out, x, incomplete, inputIndex) ==
  IF ~ ProofValid(workPuzzle(f, j).puzzle, x)
    THEN [run |-> TRUE, ok |-> FALSE, err |-> "invalid solution", script |-> <<>>]
  ELSE [run |-> TRUE, ok |-> TRUE, err |-> "",
        script |-> RedeemScript(
            sign(k, [satoshis |-> out.value, scriptCode |-> ScriptToBuffer(toScript(j)),
                     inputIndex |-> inputIndex, incompleteTransaction |-> incomplete],
                 SighashAllForkId),
            f.pubkey, x, f.address)]

\* bsv.Script(new bsv.Address(receiveAddress)).toBuffer(): pay to public key hash
PayToPublicKeyHash(hash) == <<118, 169, 20>> \o hash \o <<136, 172>>

\* bsv.Script.buildSafeDataOut(['boostpow', 'proof']).toBuffer()
SafeDataOut == <<0, 106, 8>> \o BoostPowFlag \o <<5, 112, 114, 111, 111, 102>>

\* a faulty fee: rounded down
FeeRoundedDown(size, r) == (size * r.num) \div r.den

\* Math.ceil(size * sats_per_byte), the rate being r.num / r.den
Fee(size, r) == (size * r.num + r.den - 1) \div r.den

\* a faulty last step: the fee is taken off again after signing
WriteRedeemTransactionFeeTwice(size, fee, funded, redeem) ==
  IF ~ redeem.ok
    THEN [run |-> TRUE, ok |-> FALSE, err |-> redeem.err,
          estimate |-> size, fee |-> fee, redeem |-> redeem,
          incomplete |-> funded, bytes |-> <<>>]
  ELSE [run |-> TRUE, ok |-> TRUE, err |-> "",
        estimate |-> size, fee |-> fee, redeem |-> redeem, incomplete |-> funded,
        bytes |-> writeTransaction([funded EXCEPT
                    !.inputs[1].script = redeem.script,
                    !.outputs[1].satoshis =
                       IF @ >= fee THEN @ - fee ELSE 0])]

\* createRedeemTransaction, steps 4 - 6, once redeem has run: the transaction
\* is written with the unlocking script in input 0
WriteRedeemTransaction(size, fee, funded, redeem) ==
  IF ~ redeem.ok
    THEN [run |-> TRUE, ok |-> FALSE, err |-> redeem.err,
          estimate |-> size, fee |-> fee, redeem |-> redeem,
          incomplete |-> funded, bytes |-> <<>>]
  ELSE [run |-> TRUE, ok |-> TRUE, err |-> "",
        estimate |-> size, fee |-> fee, redeem |-> redeem, incomplete |-> funded,
        bytes |-> writeTransaction([funded EXCEPT !.inputs[1].script = redeem.script])]

\* createRedeemTransaction, step 3: output 0 gets the value less the fee
FundRedeemTransaction(f, j, k, out, x, size, fee, funded) ==
  WriteRedeemTransaction(size, fee, funded, PuzzleRedeem(f, j, k, out, x, funded, 0))

\* createRedeemTransaction, step 2, the fee being computed
CheckFee(f, j, k, out, x, incomplete, size, fee) ==
  IF fee > out.value
    THEN [run |-> TRUE, ok |-> FALSE, err |-> "not enough sats to be worth it",
          estimate |-> size, fee |-> fee, redeem |-> NoRedeem,
          incomplete |-> incomplete, bytes |-> <<>>]
  ELSE FundRedeemTransaction(f, j, k, out, x, size, fee,
         [incomplete EXCEPT !.outputs[1].satoshis = out.value - fee])

\* createRedeemTransaction, step 2: the fee from the estimated size
PayFee(f, j, k, out, x, r, incomplete) ==
  CheckFee(f, j, k, out, x, incomplete, estimateTransactionSize(incomplete),
           Fee(estimateTransactionSize(incomplete), r))

\* createRedeemTransaction, step 1: the incomplete transaction
IncompleteRedeemTransaction(j, k, out, receiveHash) ==
  [version |-> 1,
   inputs |-> << [prevTxId |-> out.txid, outputIndex |-> NumberIndex(out.vout),
                  scriptSize |-> expectedRedeemScriptSize(j, k),
                  script |-> <<>>, sequenceNumber |-> NoNumber] >>,
   outputs |-> << [satoshis |-> 0, script |-> PayToPublicKeyHash(receiveHash)],
                  [satoshis |-> 0, script |-> SafeDataOut] >>,
   locktime |-> NoNumber]

\* Puzzle.createRedeemTransaction(solution, receiveAddress, sats_per_byte)
createRedeemTransaction(f, j, k, out, x, receiveHash, r) ==
  PayFee(f, j, k, out, x, r, IncompleteRedeemTransaction(j, k, out, receiveHash))

(***************************************************************************)
(* A facade Puzzle is constructed and asked for the redeeming transaction. *)
(***************************************************************************)
AllKeys == 1..(2 * NumKeys)

RedeemJobs ==
  { MkJob(Ramp(32, 2), DifficultyOf(2), CategoryOf(2), <<>>, <<>>, Ramp(4, 42), gpb, mpkh) :
      gpb \in BOOLEAN,
      mpkh \in {None, Some(AddressOf(1)), Some(AddressOf(NumKeys + 1))} }

\* solutions with an extra nonce 2 of 8 and of 5 bytes, and of 12 bytes; of the
\* latter, one meets the target of a version 1 job and one that of a version 2 job
RedeemSolutions ==
  Solutions \cup
  { MkSolution(Ramp(4, 61), Ramp(4, 71), Ramp(12, s), Ramp(4, 91), gpb) :
      s \in {7, 81}, gpb \in {None, Some(Ramp(4, 90))} }

\* 0.2 and 1 satoshi per byte
Rates == { [num |-> 1, den |-> 5], [num |-> 1, den |-> 1] }

\* the value of the output spent, by its distance from the fee
Margins == {-1, 0, 1, 40}

ReceiveHash == Ramp(20, 55)

InitRedeem ==
  /\ job \in RedeemJobs
  /\ key \in AllKeys
  /\ solution \in RedeemSolutions
  /\ rate \in Rates
  /\ \E margin \in Margins, vout \in {0, 1} :
       output = [value |-> Fee(110 + 1 + expectedRedeemScriptSize(job, key), rate) + margin,
                 txid |-> Ramp(32, 31), vout |-> vout]
  /\ spend = NoSpend
  /\ facade = NoFacade
  /\ script = <<>>
  /\ parsed = NotRun
  /\ address = None
  /\ redeemHash = None
  /\ wpuzzle = PuzzleNotRun
  /\ wproof = PuzzleNotRun
  /\ powstr = NoPowString
  /\ TxDefaults
  /\ AttachDefaults
  /\ JsonDefaults

\* puzzle.createRedeemTransaction(solution, receiveAddress, sats_per_byte)
CreateRedeemTransaction ==
  /\ facade.run /\ facade.ok
  /\ ~ spend.run
  /\ spend' = createRedeemTransaction(facade, job, key, output, solution, ReceiveHash, rate)
  /\ UNCHANGED <<job, script, parsed, address, solution, redeemHash, wpuzzle, wproof,
                 powstr, key, facade, txVars, output, rate, attachVars, jsonVars, powVars>>

NextRedeem == ConstructPuzzle \/ CreateRedeemTransaction

SpecRedeem == InitRedeem /\ [][NextRedeem]_vars

\* the solution has a valid proof of work for the puzzle of the facade
SolutionValid == ProofValid(workPuzzle(facade, job).puzzle, solution)

\* the transaction returned, read back
Returned == TransactionFromBuffer(spend.bytes)

\* the size of the incomplete transaction, by the documented sum
DocumentedEstimate ==
  8 + DocumentedVarIntSize(Len(spend.incomplete.outputs))
    + DocumentedVarIntSize(Len(spend.incomplete.inputs))
    + DocumentedInputsSize(spend.incomplete.inputs)
    + DocumentedOutputsSize(spend.incomplete.outputs)

\* the fee a returned transaction pays
FeePaid == output.value - Returned.outputs[1].satoshis

\* f is the ceiling of size times the rate
IsCeilingOfRate(f, size) ==
  /\ f * rate.den >= size * rate.num
  /\ (f - 1) * rate.den < size * rate.num

\* C11: createRedeemTransaction fails, returning no transaction, whenever the
\* fee, the ceiling of the estimated size times the rate, is greater than or
\* equal to output.value; a returned transaction never pays 0 satoshis to the
\* receive address.
C11_FailsWhenFeeReachesValue ==
  /\ (spend.run /\ spend.fee >= output.value) => (~ spend.ok /\ spend.bytes = <<>>)
  /\ spend.ok => Returned.outputs[1].satoshis > 0

\* what holds instead: it fails whenever the fee is greater than output.value
C11_FailsWhenFeeExceedsValue ==
  (spend.run /\ spend.fee > output.value) =>
    /\ ~ spend.ok
    /\ spend.bytes = <<>>
    /\ spend.err = "not enough sats to be worth it"

\* a transaction is returned that pays 0 satoshis to the receive address
C11_PaysNothing ==
  /\ spend.ok
  /\ spend.fee = output.value
  /\ Returned.outputs[1].satoshis = 0
  /\ Returned.outputs[1].script = PayToPublicKeyHash(ReceiveHash)

C13_FeeRate ==
  spend.ok => FeePaid * rate.den >= rate.num * Len(spend.bytes)

\* what holds instead: the rate is met when the unlocking script is no longer
\* than Redeem.expectedSize says
C13_FeeRateWithinEstimate ==
  (spend.ok /\ Len(spend.redeem.script) <= expectedRedeemScriptSize(job, key)) =>
    FeePaid * rate.den >= rate.num * Len(spend.bytes)

\* a version 1 solution with an extra nonce 2 of 12 bytes is accepted and the
\* transaction pays less than the rate
C13_UnderpaidVersion1 ==
  /\ spend.ok
  /\ ~ job.useGeneralPurposeBits
  /\ Len(solution.ExtraNonce2) = 12
  /\ Len(spend.redeem.script) > expectedRedeemScriptSize(job, key)
  /\ FeePaid * rate.den < rate.num * Len(spend.bytes)

C15_InvalidSolutionRejected ==
  (spend.run /\ ~ SolutionValid) =>
    /\ ~ spend.ok
    /\ spend.bytes = <<>>
    /\ spend.redeem.run =>
         /\ ~ spend.redeem.ok
         /\ spend.redeem.err = "invalid solution"
         /\ spend.redeem.script = <<>>
         /\ spend.err = "invalid solution"

\* redeem was called with a solution whose hash is not below the target
C15_Witness ==
  /\ spend.redeem.run
  /\ pow_string(workPuzzle(facade, job).puzzle, solution).has
  /\ ~ SolutionValid
  /\ spend.err = "invalid solution"

\* redeem was called with a solution without general purpose bits for a
\* version 2 job
C15_WitnessMask ==
  /\ spend.redeem.run
  /\ job.useGeneralPurposeBits /\ ~ solution.GeneralPurposeBits.has
  /\ ~ pow_string(workPuzzle(facade, job).puzzle, solution).has
  /\ spend.err = "invalid solution"

(***************************************************************************)
(* The estimate as a function of one input's scriptSize.                   *)
(***************************************************************************)
\* the incomplete transaction with the scriptSize of input k replaced
WithScriptSize(t, k, size) == [t EXCEPT !.inputs[k].scriptSize = size]

\* the sizes an input's scriptSize is raised to: the sizes around the
\* thresholds of the variable-length integer that are not below it
RaisedSizes(size) ==
  { r \in ScriptSizes \cup {size, size + 1, 254, 65537} : r >= size }

JsUndefined == [type |-> "undefined", chars |-> <<>>]

JsString(chars) == [type |-> "string", chars |-> chars]

JsNumber == [type |-> "number", chars |-> <<>>]

\* !x for a string, a non-zero number or undefined
Falsy(x) == x.type = "undefined" \/ (x.type = "string" /\ x.chars = <<>>)

\* buffer.toString('hex')
ToHex(b) ==
  [ i \in 1..(2 * Len(b)) |->
      IF i % 2 = 1 THEN b[(i + 1) \div 2] \div 16 ELSE b[i \div 2] % 16 ]

\* the number of bytes Buffer.from(hex, 'hex') decodes: the pairs of hex
\* digits before the first character that is not one
DecodedLength(chars) ==
  LET good == { k \in 0..(Len(chars) \div 2) : \A i \in 1..(2 * k) : chars[i] < 16 }
  IN  CHOOSE k \in good : \A m \in good : m <= k

\* Buffer.from(hex, 'hex')
BufferFromHex(chars) ==
  [ i \in 1..DecodedLength(chars) |-> chars[2 * i - 1] * 16 + chars[2 * i] ]

\* UInt32Little.fromHex, UInt32Big.fromHex, Int32Little.fromHex
UInt32FromHex(chars) ==
  LET b == BufferFromHex(chars) IN IF Len(b) = 4 THEN Some(b) ELSE None

\* Bytes.fromHex
BytesFromHex(chars) == Some(BufferFromHex(chars))

NoShare == [has |-> FALSE, timestamp |-> JsUndefined, nonce |-> JsUndefined,
            extra_nonce_2 |-> JsUndefined, bits |-> JsUndefined]

SolutionJson(timestamp, nonce, extra_nonce_2, bits, extra_nonce_1) ==
  [ share |-> [has |-> TRUE, timestamp |-> timestamp, nonce |-> nonce,
               extra_nonce_2 |-> extra_nonce_2, bits |-> bits],
    extra_nonce_1 |-> extra_nonce_1 ]

\* Solution.toJSON
SolutionToJSON(x) ==
  SolutionJson(JsString(ToHex(x.Time)), JsString(ToHex(x.Nonce)),
               JsString(ToHex(x.Nonce)),
               IF x.GeneralPurposeBits.has
                 THEN JsString(ToHex(x.GeneralPurposeBits.buf))
               ELSE JsUndefined,
               JsString(ToHex(x.ExtraNonce1)))

NoSolution == [has |-> FALSE, solution |-> MkSolution(<<>>, <<>>, <<>>, <<>>, None)]

\* Solution.fromJSON, after the test of the shape of the object
SolutionFromFields(x) ==
  LET time == UInt32FromHex(x.share.timestamp.chars)
      en1 == UInt32FromHex(x.extra_nonce_1.chars)
      en2 == BytesFromHex(x.share.extra_nonce_2.chars)
      n == UInt32FromHex(x.share.nonce.chars)
      gpr == IF ~ Falsy(x.share.bits) THEN UInt32FromHex(x.share.bits.chars) ELSE None
  IN  IF ~ time.has \/ ~ en1.has \/ ~ en2.has \/ ~ n.has THEN NoSolution
      ELSE IF ~ Falsy(x.share.bits) /\ ~ gpr.has THEN NoSolution
      ELSE [has |-> TRUE, solution |-> MkSolution(time.buf, en1.buf, en2.buf, n.buf, gpr)]

\* Solution.fromJSON
SolutionFromJSON(x) ==
  IF \/ ~ x.share.has
     \/ Falsy(x.extra_nonce_1)
     \/ Falsy(x.share.timestamp) \/ Falsy(x.share.nonce) \/ Falsy(x.share.extra_nonce_2)
     \/ x.extra_nonce_1.type # "string"
     \/ x.share.timestamp.type # "string"
     \/ x.share.nonce.type # "string"
     \/ x.share.extra_nonce_2.type # "string"
     \/ (~ Falsy(x.share.bits) /\ x.share.bits.type # "string")
    THEN NoSolution
  ELSE SolutionFromFields(x)

(***************************************************************************)
(* Solutions are written as JSON and read back; JSON documents that were   *)
(* not written by toJSON are read as well.                                 *)
(***************************************************************************)
ExtraNonces2(n) ==
  { <<>>, Ramp(4, 90 + n), Ramp(4, 80 + n), Ramp(5, 80 + n), Ramp(8, 80 + n), Ramp(12, 80 + n) }

JsonSolutions ==
  UNION { { MkSolution(Ramp(4, 60 + n), Ramp(4, 70 + n), en2, Ramp(4, 90 + n), gpb) :
              en2 \in ExtraNonces2(n), gpb \in GeneralPurposeBits } :
          n \in 1..NumSolutions }

\* a well-formed document, and documents with one member missing, of another
\* type, of another width, or not hex
GivenJson ==
  LET h4 == JsString(ToHex(Ramp(4, 61)))
      h8 == JsString(ToHex(Ramp(8, 81)))
      values == { h4, h8, JsString(<<>>), JsUndefined, JsNumber,
                  JsString(ToHex(Ramp(3, 61))), JsString(<<1, 2, 3, 4, 16, 6, 7, 8>>) }
  IN  { [SolutionJson(h4, h4, h8, JsUndefined, h4) EXCEPT !.share.has = FALSE] }
      \cup { SolutionJson(v, h4, h8, JsUndefined, h4) : v \in values }
      \cup { SolutionJson(h4, v, h8, JsUndefined, h4) : v \in values }
      \cup { SolutionJson(h4, h4, v, JsUndefined, h4) : v \in values }
      \cup { SolutionJson(h4, h4, h8, v, h4) : v \in values }
      \cup { SolutionJson(h4, h4, h8, JsUndefined, v) : v \in values }

InitJson ==
  /\ \/ solution \in JsonSolutions /\ sjson = NoJson
     \/ /\ solution = MkSolution(<<>>, <<>>, <<>>, <<>>, None)
        /\ sjson \in { [kind |-> "given", json |-> x] : x \in GivenJson }
  /\ sback = NoObject
  /\ params = NoParams
  /\ made = NoObject
  /\ check = NoCheck
  /\ job = NoJob
  /\ script = <<>>
  /\ parsed = NotRun
  /\ address = None
  /\ redeemHash = None
  /\ wpuzzle = PuzzleNotRun
  /\ wproof = PuzzleNotRun
  /\ powstr = NoPowString
  /\ FacadeDefaults
  /\ TxDefaults
  /\ RedeemDefaults
  /\ AttachDefaults

\* solution.toJSON()
ToJSON ==
  /\ sjson.kind = "none"
  /\ sjson' = [kind |-> "written", json |-> SolutionToJSON(solution)]
  /\ UNCHANGED <<job, script, parsed, address, solution, redeemHash, wpuzzle, wproof,
                 powstr, key, facade, txVars, redeemVars, attachVars, sback, params, made, powVars>>

\* Solution.fromJSON(json)
FromJSON ==
  /\ sjson.kind # "none"
  /\ ~ sback.run
  /\ sback' = [run |-> TRUE, result |-> SolutionFromJSON(sjson.json)]
  /\ UNCHANGED <<job, script, parsed, address, solution, redeemHash, wpuzzle, wproof,
                 powstr, key, facade, txVars, redeemVars, attachVars, sjson, params, made, powVars>>

NextJson == ToJSON \/ FromJSON

SpecJson == InitJson /\ [][NextJson]_vars

\* the Solution was written by toJSON and read back by fromJSON
RoundTripDone == sjson.kind = "written" /\ sback.run

\* C22: fromJSON(s.toJSON()) is a Solution equal to s in time, extraNonce1,
\* extraNonce2, nonce and generalPurposeBits; share.extra_nonce_2 is the hex
\* of extraNonce2 and share.bits is written iff s has general purpose bits.
C22_JsonRoundTrip ==
  /\ sjson.kind = "written" =>
       /\ sjson.json.share.extra_nonce_2 = JsString(ToHex(solution.ExtraNonce2))
       /\ (sjson.json.share.bits.type # "undefined") = solution.GeneralPurposeBits.has
  /\ RoundTripDone =>
       /\ sback.result.has
       /\ sback.result.solution = solution

\* what the code does: the round trip returns a Solution equal to s in time,
\* extraNonce1, nonce and generalPurposeBits whose extraNonce2 is the nonce
C22_RoundTripButExtraNonce2 ==
  RoundTripDone =>
    /\ sback.result.has
    /\ sback.result.solution = [solution EXCEPT !.ExtraNonce2 = solution.Nonce]
    /\ sjson.json.share.extra_nonce_2 = JsString(ToHex(solution.Nonce))
    /\ (sjson.json.share.bits.type # "undefined") = solution.GeneralPurposeBits.has

\* a Solution with an 8-byte extraNonce2 that comes back with the 4 bytes of
\* its nonce as extraNonce2
C22_ExtraNonce2Lost ==
  /\ RoundTripDone
  /\ Len(solution.ExtraNonce2) = 8
  /\ sback.result.has
  /\ sback.result.solution.ExtraNonce2 = solution.Nonce
  /\ sback.result.solution.Time = solution.Time

(***************************************************************************)
(* Job.fromObject.  The members of the object are hex strings or           *)
(* undefined; diff is any JavaScript value.  The 4 random bytes of an      *)
(* omitted userNonce are an input of the operator.                         *)
(***************************************************************************)
\* diff: a number (positive, zero or negative), NaN, a numeric string, undefined
DiffNumber(sgn, target) == [type |-> "number", sign |-> sgn, target |-> target]

DiffOther(type, sgn) == [type |-> type, sign |-> sgn, target |-> [mant |-> 0, exp |-> 0]]

\* params.diff <= 0 (undefined and NaN compare false)
DiffNotPositive(d) == d.type \in {"number", "string"} /\ d.sign <= 0

\* isNaN(params.diff)
IsNaN(d) == d.type \in {"NaN", "undefined"}

\* typeof params.diff !== 'number'
NotTypeofNumber(d) == d.type \notin {"number", "NaN"}

\* Utils.createBufferAndPad(hex, size, reverse): the bytes of the hex string,
\* cut or filled up with zeros on the right to the size, reversed on demand
createBufferAndPad(x, size, reverse) ==
  LET b == IF Falsy(x) THEN <<>> ELSE BufferFromHex(x.chars)
      padded == [ i \in 1..size |-> IF i <= Len(b) THEN b[i] ELSE 0 ]
  IN  IF reverse THEN [ i \in 1..size |-> padded[size + 1 - i] ] ELSE padded

\* a string member that is present and longer than max characters
TooLong(x, max) == ~ Falsy(x) /\ Len(x.chars) > max

\* x ? Buffer.from(x, 'hex') : Buffer.alloc(0)
BufferOrEmpty(x) == IF Falsy(x) THEN <<>> ELSE BufferFromHex(x.chars)

MadeThrow(msg) == [run |-> TRUE, ok |-> FALSE, err |-> msg, job |-> NoJob]

\* a faulty fromObject: no test of the length of the tag
fromObjectAnyTag(o, random) ==
  IF TooLong(o.content, 64) THEN MadeThrow("content too large. Max 32 bytes.")
  ELSE IF DiffNotPositive(o.diff) \/ IsNaN(o.diff) \/ NotTypeofNumber(o.diff)
    THEN MadeThrow("diff must be a positive number.")
  ELSE IF TooLong(o.category, 8) THEN MadeThrow("category too large. Max 4 bytes.")
  ELSE IF TooLong(o.userNonce, 8) THEN MadeThrow("userNonce too large. Max 4 bytes.")
  ELSE IF TooLong(o.minerPubKeyHash, 40)
    THEN MadeThrow("minerPubKeyHash too large. Max 4 bytes.")
  ELSE [run |-> TRUE, ok |-> TRUE, err |-> "",
        job |-> MkJob(createBufferAndPad(o.content, 32, TRUE),
                      o.diff.target,
                      IF Falsy(o.category) THEN Fill(4, 0)
                      ELSE createBufferAndPad(o.category, 4, FALSE),
                      BufferOrEmpty(o.tag),
                      BufferOrEmpty(o.additionalData),
                      createBufferAndPad(IF Falsy(o.userNonce)
                                           THEN JsString(ToHex(random))
                                         ELSE o.userNonce, 4, FALSE),
                      o.useGeneralPurposeBits.has /\ o.useGeneralPurposeBits.value,
                      IF Falsy(o.minerPubKeyHash) THEN None
                      ELSE Some(BufferFromHex(o.minerPubKeyHash.chars)))]

\* Job.fromObject(params)
fromObject(o, random) ==
  IF TooLong(o.content, 64) THEN MadeThrow("content too large. Max 32 bytes.")
  ELSE IF DiffNotPositive(o.diff) \/ IsNaN(o.diff) \/ NotTypeofNumber(o.diff)
    THEN MadeThrow("diff must be a positive number.")
  ELSE IF TooLong(o.category, 8) THEN MadeThrow("category too large. Max 4 bytes.")
  ELSE IF TooLong(o.tag, 40) THEN MadeThrow("tag too large. Max 20 bytes.")
  ELSE IF TooLong(o.userNonce, 8) THEN MadeThrow("userNonce too large. Max 4 bytes.")
  ELSE IF TooLong(o.minerPubKeyHash, 40)
    THEN MadeThrow("minerPubKeyHash too large. Max 4 bytes.")
  ELSE [run |-> TRUE, ok |-> TRUE, err |-> "",
        job |-> MkJob(createBufferAndPad(o.content, 32, TRUE),
                      o.diff.target,
                      IF Falsy(o.category) THEN Fill(4, 0)
                      ELSE createBufferAndPad(o.category, 4, FALSE),
                      BufferOrEmpty(o.tag),
                      BufferOrEmpty(o.additionalData),
                      createBufferAndPad(IF Falsy(o.userNonce)
                                           THEN JsString(ToHex(random))
                                         ELSE o.userNonce, 4, FALSE),
                      o.useGeneralPurposeBits.has /\ o.useGeneralPurposeBits.value,
                      IF Falsy(o.minerPubKeyHash) THEN None
                      ELSE Some(BufferFromHex(o.minerPubKeyHash.chars)))]

(***************************************************************************)
(* Objects are made into Jobs.                                             *)
(***************************************************************************)
HexOf(b) == JsString(ToHex(b))

JsBoolean(b) == [has |-> TRUE, value |-> b]

NoBoolean == [has |-> FALSE, value |-> FALSE]

Diffs ==
  { DiffNumber(1, DifficultyOf(1)), DiffNumber(0, [mant |-> 0, exp |-> 0]),
    DiffNumber(-1, DifficultyOf(1)), DiffOther("NaN", 0), DiffOther("string", 1),
    DiffOther("undefined", 0) }

JobObjects ==
  { [given |-> TRUE, content |-> content, diff |-> diff, category |-> category,
     tag |-> tag, additionalData |-> additionalData, userNonce |-> userNonce,
     minerPubKeyHash |-> minerPubKeyHash, useGeneralPurposeBits |-> gpb] :
      content \in {HexOf(Ramp(32, 1)), HexOf(Ramp(33, 1)), HexOf(Ramp(2, 1))},
      diff \in Diffs,
      category \in {JsUndefined, HexOf(Ramp(4, 21)), HexOf(Ramp(5, 21))},
      tag \in {JsUndefined, HexOf(Ramp(20, 9)), HexOf(Ramp(21, 9))},
      additionalData \in {JsUndefined, HexOf(Ramp(3, 3))},
      userNonce \in {JsUndefined, HexOf(Ramp(4, 41)), HexOf(Ramp(5, 41))},
      minerPubKeyHash \in {JsUndefined, HexOf(Ramp(20, 77)), HexOf(Ramp(19, 77)),
                           HexOf(Ramp(21, 77))},
      gpb \in {NoBoolean, JsBoolean(TRUE)} }

\* Math.floor(Math.random() * 0xff), four times
RandomNonces == {Fill(4, 0), Ramp(4, 200), Fill(4, 254)}

InitObject ==
  /\ params \in JobObjects
  /\ made = NoObject
  /\ check = NoCheck
  /\ sjson = NoJson
  /\ sback = NoObject
  /\ job = NoJob
  /\ script = <<>>
  /\ parsed = NotRun
  /\ WorkDefaults
  /\ FacadeDefaults
  /\ TxDefaults
  /\ RedeemDefaults
  /\ AttachDefaults

\* Job.fromObject(params)
FromObject ==
  /\ ~ made.run
  /\ \E random \in RandomNonces : made' = fromObject(params, random)
  /\ job' = made'.job
  /\ UNCHANGED <<script, parsed, address, solution, redeemHash, wpuzzle, wproof,
                 powstr, key, facade, txVars, redeemVars, attachVars, sjson, sback, params, powVars>>

\* job.toScript() of the Job made
ObjectToScript ==
  /\ made.run /\ made.ok
  /\ script = <<>>
  /\ script' = toScript(job)
  /\ UNCHANGED <<job, parsed, address, solution, redeemHash, wpuzzle, wproof,
                 powstr, key, facade, txVars, redeemVars, attachVars, jsonVars, powVars>>

\* Job.fromScript of that script
ObjectReadScript ==
  /\ script # <<>>
  /\ parsed = NotRun
  /\ parsed' = readScript(script)
  /\ UNCHANGED <<job, script, address, solution, redeemHash, wpuzzle, wproof,
                 powstr, key, facade, txVars, redeemVars, attachVars, jsonVars, powVars>>

NextObject == FromObject \/ ObjectToScript \/ ObjectReadScript

SpecObject == InitObject /\ [][NextObject]_vars

\* the number of bytes a hex member stands for (0 when it is omitted)
ByteCount(x) == IF Falsy(x) THEN 0 ELSE Len(BufferFromHex(x.chars))

\* diff is not a number, is NaN, or is <= 0
BadDiff(d) == d.type # "number" \/ d.sign <= 0

\* the reasons for which the documentation lets fromObject throw
DocumentedRejection(o) ==
  \/ ByteCount(o.content) > 32
  \/ BadDiff(o.diff)
  \/ ByteCount(o.category) > 4
  \/ ByteCount(o.tag) > 20
  \/ ByteCount(o.userNonce) > 4

\* every omitted optional member has its default in the Job
DefaultsOfOmitted(o, j) ==
  /\ Falsy(o.category) => j.Category = <<0, 0, 0, 0>>
  /\ Falsy(o.tag) => j.Tag = <<>>
  /\ Falsy(o.additionalData) => j.AdditionalData = <<>>
  /\ ~ o.useGeneralPurposeBits.has => ~ j.useGeneralPurposeBits
  /\ Falsy(o.minerPubKeyHash) => (~ j.MinerPubKeyHash.has /\ isBounty(j))

\* C23 as stated: fromObject throws when content is longer than 32 bytes, diff
\* is not a positive number, category is longer than 4 bytes, tag is longer
\* than 20 bytes or userNonce is longer than 4 bytes; otherwise it returns a
\* Job in which every omitted optional field has its default.
C23_ThrowsOrDefaults ==
  made.run =>
    IF DocumentedRejection(params) THEN ~ made.ok
    ELSE made.ok /\ DefaultsOfOmitted(params, made.job)

\* C23, amended: fromObject also throws when minerPubKeyHash is longer than 20
\* bytes; in every other case it returns a Job in which every omitted optional
\* field has its default.
C23_ThrowsOrDefaultsAmended ==
  made.run =>
    IF DocumentedRejection(params) \/ ByteCount(params.minerPubKeyHash) > 20
      THEN ~ made.ok /\ made.job = NoJob
    ELSE made.ok /\ DefaultsOfOmitted(params, made.job)

\* a Job made of an object with content and diff only: every default is taken
C23_Witness ==
  /\ made.run /\ made.ok
  /\ Falsy(params.category) /\ Falsy(params.tag) /\ Falsy(params.additionalData)
  /\ Falsy(params.userNonce) /\ Falsy(params.minerPubKeyHash)
  /\ ~ params.useGeneralPurposeBits.has
  /\ made.job.Category = <<0, 0, 0, 0>>
  /\ made.job.Tag = <<>>
  /\ made.job.UserNonce = Ramp(4, 200)
  /\ isBounty(made.job)

\* an object that is rejected for its minerPubKeyHash of 21 bytes alone
C23_RejectedForMinerPubKeyHash ==
  /\ made.run /\ ~ made.ok
  /\ ~ DocumentedRejection(params)
  /\ ByteCount(params.minerPubKeyHash) = 21
  /\ made.err = "minerPubKeyHash too large. Max 4 bytes."

\* tag of at most 20 bytes; minerPubKeyHash, when present, of exactly 20 bytes
JobWellFormed(j) ==
  /\ Len(j.Tag) <= 20
  /\ j.MinerPubKeyHash.has => Len(j.MinerPubKeyHash.buf) = 20

\* C24: every Job that fromObject or readScript produces has a tag of at most
\* 20 bytes and, when it has a minerPubKeyHash, one of exactly 20 bytes; in
\* particular fromObject yields no contract-form Job with a shorter one.
C24_JobInvariant ==
  /\ (made.run /\ made.ok) => JobWellFormed(made.job)
  /\ parsed.ok => JobWellFormed(parsed.job)

\* what the code keeps: tags of at most 20 bytes, a minerPubKeyHash of at most
\* 20 bytes from fromObject and of exactly 20 bytes from readScript
C24_WidthsKept ==
  /\ (made.run /\ made.ok) =>
       /\ Len(made.job.Tag) <= 20
       /\ made.job.MinerPubKeyHash.has => Len(made.job.MinerPubKeyHash.buf) <= 20
  /\ parsed.ok => JobWellFormed(parsed.job)

\* a contract-form Job with a minerPubKeyHash of 19 bytes, whose emitted script
\* is not read back
C24_ShortMinerPubKeyHash ==
  /\ made.run /\ made.ok
  /\ isContract(made.job)
  /\ Len(made.job.MinerPubKeyHash.buf) = 19
  /\ script = toScript(made.job)
  /\ parsed # NotRun
  /\ ~ parsed.ok
  /\ parsed.err = "Invalid: could not detect bounty or contract pattern"

\* a Job with a minerPubKeyHash of 20 bytes and a tag of 20 bytes, read back
\* from its script as the same Job
C24_ReadBack ==
  /\ made.run /\ made.ok
  /\ Len(made.job.Tag) = 20
  /\ isContract(made.job)
  /\ parsed.ok
  /\ parsed.job = made.job

(***************************************************************************)
(* Minimal encoding of the pushes of an emitted script.                    *)
(***************************************************************************)
\* Script.checkMinimalPush(i), i counted from 1
checkMinimalPush(chunks, i) ==
  LET chunk == chunks[i]
      buf == chunk.buf
      opcodenum == chunk.opcodenum
  IN  IF ~ chunk.hasBuf THEN TRUE
      ELSE IF Len(buf) = 0 THEN opcodenum = Opcode.OP_0
      ELSE IF Len(buf) = 1 /\ buf[1] >= 1 /\ buf[1] <= 16
        THEN opcodenum = Opcode.OP_1 + (buf[1] - 1)
      ELSE IF Len(buf) = 1 /\ buf[1] = 129 THEN opcodenum = Opcode.OP_1NEGATE
      ELSE IF Len(buf) <= 75 THEN opcodenum = Len(buf)
      ELSE IF Len(buf) <= 255 THEN opcodenum = Opcode.OP_PUSHDATA1
      ELSE IF Len(buf) <= 65535 THEN opcodenum = Opcode.OP_PUSHDATA2
      ELSE TRUE

\* the payloads of the prefix of the script of a Job, in the order of the
\* chunks; the second chunk is OP_DROP and pushes nothing
PrefixPayloads(j) ==
  << BoostPowFlag >>
  \o (IF j.MinerPubKeyHash.has THEN << j.MinerPubKeyHash.buf >> ELSE <<>>)
  \o << j.Category, j.Content, JobBits(j), j.Tag, j.UserNonce, j.AdditionalData >>

\* the chunk that pushes payload number k of the prefix
PrefixChunk(chunks, k) == IF k = 1 THEN chunks[1] ELSE chunks[k + 1]

\* the minimal encoding of a payload as the documentation gives it
MinimallyEncoded(chunk, payload) ==
  IF Len(payload) = 0 THEN chunk.opcodenum = Opcode.OP_0
  ELSE IF Len(payload) = 1 /\ payload[1] \in 1..16
    THEN ~ chunk.hasBuf /\ chunk.opcodenum = Opcode.OP_1 + payload[1] - 1
  ELSE IF Len(payload) = 1 /\ payload[1] = 129
    THEN ~ chunk.hasBuf /\ chunk.opcodenum = Opcode.OP_1NEGATE
  ELSE IF Len(payload) <= 75
    THEN chunk.hasBuf /\ chunk.opcodenum = Len(payload) /\ chunk.buf = payload
  ELSE chunk.hasBuf /\ chunk.opcodenum = Opcode.OP_PUSHDATA1 /\ chunk.buf = payload

\* C25: every chunk of the script that toScript emits is a minimal push: an
\* empty payload is OP_0, a byte 1..16 is OP_1..OP_16, the byte 0x81 is
\* OP_1NEGATE and every other payload of up to 75 bytes is a direct push, in
\* the prefix and in the constants of the body.
C25_MinimalPushes ==
  (script # <<>> /\ script = toScript(job)) =>
    /\ \A i \in 1..Len(script) : checkMinimalPush(script, i)
    /\ \A k \in 1..Len(PrefixPayloads(job)) :
         MinimallyEncoded(PrefixChunk(script, k), PrefixPayloads(job)[k])

\* the script of a version 2 contract with the tag 0x81 and 80 bytes of
\* additional data: OP_1NEGATE, a PUSHDATA1 push and the pushes of the body
C25_Witness ==
  /\ script # <<>> /\ script = toScript(job)
  /\ job.MinerPubKeyHash.has /\ job.useGeneralPurposeBits
  /\ job.Tag = <<129>> /\ Len(job.AdditionalData) = 80
  /\ script[7] = OpChunk(Opcode.OP_1NEGATE)
  /\ script[9].opcodenum = Opcode.OP_PUSHDATA1
  /\ \E i \in 10..Len(script) : script[i].hasBuf /\ script[i].buf = MaskPush
  /\ \E i \in 10..Len(script) : script[i].hasBuf /\ script[i].buf = <<0>>

(***************************************************************************)
(* The proof-of-work check on its own: the hash of a header and the        *)
(* compact target are given, the hash function itself is left out.         *)
(***************************************************************************)
\* compact targets: mantissas of 1, 2 and 3 bytes, exponents from 3 to 32
CompactBits ==
  { readUInt32LE(<<m[1], m[2], m[3], e>>) :
      m \in {<<1, 0, 0>>, <<255, 255, 0>>, <<52, 18, 0>>, <<255, 255, 127>>, <<0, 0, 1>>},
      e \in {3, 4, 29, 32} }

\* the 32 bytes of a number of CompareIndex bytes
Low32(t) == [i \in 1..32 |-> t[i]]

\* the number before t, for t > 0
Pred(t) ==
  LET k == CHOOSE i \in 1..32 : t[i] # 0 /\ \A j \in 1..(i - 1) : t[j] = 0
  IN  [i \in 1..32 |-> IF i < k THEN 255 ELSE IF i = k THEN t[i] - 1 ELSE t[i]]

\* the number after t, for t below 2^256 - 1
Succ(t) ==
  LET k == CHOOSE i \in 1..32 : t[i] # 255 /\ \A j \in 1..(i - 1) : t[j] = 255
  IN  [i \in 1..32 |-> IF i < k THEN 0 ELSE IF i = k THEN t[i] + 1 ELSE t[i]]

\* hashes at the target, next to it, and far from it
HashesAround(bits) ==
  LET t == Low32(getTargetDifficulty(bits))
  IN  { t, Pred(t), Succ(t), Fill(32, 0), Fill(32, 255),
        [i \in 1..32 |-> t[33 - i]] }

InitPow ==
  /\ \E bits \in CompactBits :
       check \in { [given |-> TRUE, run |-> FALSE, hash |-> h, bits |-> bits, valid |-> FALSE] :
                     h \in HashesAround(bits) }
  /\ sjson = NoJson
  /\ sback = NoObject
  /\ params = NoParams
  /\ made = NoObject
  /\ job = NoJob
  /\ script = <<>>
  /\ parsed = NotRun
  /\ WorkDefaults
  /\ FacadeDefaults
  /\ TxDefaults
  /\ RedeemDefaults
  /\ AttachDefaults

\* header.validProofOfWork()
ValidProofOfWork ==
  /\ check.given /\ ~ check.run
  /\ check' = [check EXCEPT !.run = TRUE, !.valid = PowWithinTarget(check.hash, check.bits)]
  /\ UNCHANGED <<job, script, parsed, address, solution, redeemHash, wpuzzle, wproof,
                 powstr, key, facade, txVars, redeemVars, attachVars, jsonVars>>

NextPow == ValidProofOfWork

SpecPow == InitPow /\ [][NextPow]_vars

\* x < y for little-endian numbers of 32 bytes, decided at the most
\* significant byte in which they differ
RECURSIVE Below(_, _, _)
Below(x, y, i) ==
  IF i = 0 THEN FALSE
  ELSE IF x[i] # y[i] THEN x[i] < y[i]
  ELSE Below(x, y, i - 1)

\* the target a compact value stands for: the 3-byte mantissa times
\* 256^(exponent - 3), as 32 little-endian bytes
DocumentedTarget(bits) ==
  LET b == writeUInt32LE(bits)
  IN  [i \in 1..32 |-> IF i >= b[4] - 2 /\ i <= b[4] THEN b[i - (b[4] - 3)] ELSE 0]

C26_NotAboveTarget ==
  check.run => (check.valid <=> ~ Below(DocumentedTarget(check.bits), check.hash, 32))

\* a hash equal to the target that is found valid
C26_EqualIsValid ==
  /\ check.run
  /\ check.hash = DocumentedTarget(check.bits)
  /\ check.valid

(***************************************************************************)
(* The puzzle of Job.proof against the puzzle of Job.puzzle.               *)
(***************************************************************************)
\* two outcomes agree: both throw, or both return the same puzzle
SamePuzzle(a, b) == a.ok = b.ok /\ (a.ok => a.puzzle = b.puzzle)

\* C27: for a contract job the puzzle of Job.proof(job, redeem) has metaBegin =
\* tag + job.minerPubKeyHash whatever the redeem carries and equals
\* Job.puzzle(job); for a bounty job it equals
\* Job.puzzle(job, redeem.minerPubKeyHash).
C27_ProofPuzzleIsJobPuzzle ==
  wproof # PuzzleNotRun =>
    IF isContract(job)
      THEN /\ wproof.ok
           /\ wproof.puzzle.MetaBegin = job.Tag \o job.MinerPubKeyHash.buf
           /\ SamePuzzle(wproof, JobPuzzle(job, None))
    ELSE SamePuzzle(wproof, JobPuzzle(job, redeemHash))

\* what the code does: the miner hash of the redeem is taken when there is
\* one, the hash of the job otherwise; for a bounty job that is Job.puzzle
C27_RedeemHashFirst ==
  wproof # PuzzleNotRun =>
    /\ isBounty(job) => SamePuzzle(wproof, JobPuzzle(job, redeemHash))
    /\ (isContract(job) /\ ~ redeemHash.has) => SamePuzzle(wproof, JobPuzzle(job, None))
    /\ (isContract(job) /\ redeemHash.has) =>
         /\ wproof.ok
         /\ wproof.puzzle.MetaBegin = job.Tag \o redeemHash.buf

\* a contract job and a redeem that carries another miner hash: the puzzle of
\* Job.proof is not the puzzle of the job
C27_RedeemHashWins ==
  /\ isContract(job)
  /\ redeemHash.has /\ redeemHash # job.MinerPubKeyHash
  /\ wproof.ok
  /\ wproof.puzzle.MetaBegin = job.Tag \o redeemHash.buf
  /\ wpuzzle.ok
  /\ wpuzzle.puzzle.MetaBegin = job.Tag \o job.MinerPubKeyHash.buf
  /\ wproof.puzzle # wpuzzle.puzzle

(***************************************************************************)
(* The size of a written transaction against the estimate.                 *)
(***************************************************************************)
\* every input script is at most as long as the scriptSize declared for it
ScriptsWithinDeclaredSize(t) ==
  \A k \in 1..Len(t.inputs) : Len(t.inputs[k].script) <= t.inputs[k].scriptSize

Signed == TransactionFromBuffer(writeIncompleteTransaction(spend.incomplete))

C30_AddressAndWorkPuzzle ==
  (facade.run /\ facade.ok) =>
    /\ facade.address.has <=> isBounty(job)
    /\ FacadeAddress(facade, job) = Some(Hash160(PubKey(key)))
    /\ workPuzzle(facade, job).ok
    /\ wpuzzle # PuzzleNotRun =>
         /\ wpuzzle.ok
         /\ wpuzzle.puzzle.MetaBegin = job.Tag \o Hash160(PubKey(key))

\* the work puzzle of a Puzzle made for a contract output with the miner's key:
\* no _address, and the miner hash of the job after the tag
C30_Witness ==
  /\ facade.run /\ facade.ok
  /\ isContract(job)
  /\ ~ facade.address.has
  /\ job.Tag # <<>>
  /\ wpuzzle.ok
  /\ wpuzzle.puzzle.MetaBegin = job.Tag \o job.MinerPubKeyHash.buf
  /\ job.MinerPubKeyHash.buf = Hash160(PubKey(key))

====
